---- MODULE Spec2Model ----
(***************************************************************************)
(* SiteView: the Convex backend of the construction-progress tracker.      *)
(*                                                                         *)
(* The state is the document store (one table per entity of schema.ts),    *)
(* the per-table id allocator, and the record of the last call made to a   *)
(* mutation (its name, arguments, handler locals and completion).          *)
(* Queries are pure functions of the store and are modelled as operators.  *)
(* A mutation whose handler awaits one ctx.db write is one action; a       *)
(* handler that awaits several ctx.db calls takes one step per awaited     *)
(* call, and the writes it made before a later call throws stay.           *)
(*                                                                         *)
(* How the platform runs a handler is decided by the mutation wrapper of   *)
(* convex/_generated/server, which is not among the sources.  It is taken  *)
(* from the specification (5, concurrency and resource model): each write  *)
(* is atomic on its own, and a compound write sequence is sequential       *)
(* awaited calls with no surrounding transaction boundary.  So a write     *)
(* reaches the store when its call is awaited (Suspend), and while a       *)
(* handler is suspended at an await any other call may start, run and      *)
(* return (Scheduled); the suspended handlers resume in any order.         *)
(* overlaps counts the calls that started while another call was in        *)
(* flight; a behaviour with overlaps = 0 has run its calls one after       *)
(* another.  SpecSteps adds the cutting off of a suspended handler that    *)
(* the specification describes for the visit cascade (4.1).                *)
(***************************************************************************)
EXTENDS Integers, Sequences, FiniteSets, TLC

VARIABLES db, nextId, last, scope, inflight, overlaps

vars == <<db, nextId, last, scope, inflight, overlaps>>

(***************************************************************************)
(* Bounds.  A budget is the number of ids (over all tables) a behaviour    *)
(* of a scope may issue; a call that starts while another is in flight     *)
(* takes one unit of the budget as well.                                   *)
(***************************************************************************)
BudgetClients == 3
BudgetProjects == 4
BudgetVisits == 4
BudgetOrphanVisits == 3
BudgetPhotos == 5
BudgetCascade == 6
BudgetAssignments == 5
BudgetAssignedProjects == 6
\* Room for one run of seedTestData (ten ids) and one more unit.
BudgetSeed == 11
\* Room for a user, one run of seedTestData and one more assignment row.
BudgetSeedAssign == 12
\* Room for two runs of seedTestData, the second started during the first.
BudgetSeedTwice == 21
BudgetClear == 4
BudgetSteps == 6
\* The number of calls of a behaviour that may start while another call is
\* in flight; one more than it is the number of calls in flight at once.
MaxOverlaps == 1

Tables == {"users", "clients", "projects", "visits", "photos", "projectAssignments"}

(***************************************************************************)
(* Values.                                                                 *)
(***************************************************************************)
\* The value a query returns for "no document", and a mutation for "nothing".
Null == [null |-> TRUE]

\* An arguments object or a locals record with no entries.
Empty == [k \in {} |-> TRUE]

\* Completion of a handler: it returned a value, or it threw.
Returned(x) == [value |-> x]
Threw(msg) == [error |-> msg]

IsError(c) == "error" \in DOMAIN c

\* The entries of an object under the given keys; a key whose value is
\* undefined (absent from the arguments) yields no entry, as db.insert and
\* the filteredUpdates of the update handlers drop undefined values.
Defined(obj, keys) == [k \in (keys \cap DOMAIN obj) |-> obj[k]]

\* {...a, ...b}: the entries of b, and those of a that b does not override.
Spread(a, b) == b @@ a

RECURSIVE Ascending(_)
\* The ids of a set in creation order (ids are issued in increasing order).
Ascending(S) ==
    IF S = {} THEN <<>>
    ELSE LET m == CHOOSE x \in S : \A y \in S : x <= y
         IN <<m>> \o Ascending(S \ {m})

Range(s) == {s[i] : i \in DOMAIN s}

(***************************************************************************)
(* The document store (ctx.db).  A store value st is [db, nextId]; a table *)
(* maps the ids of its persisted documents to their fields.                *)
(***************************************************************************)
Ids(st, t) == DOMAIN st.db[t]

\* Ids the store has handed out so far in table t (persisted or deleted).
Issued(n, t) == 1 .. (n[t] - 1)

\* A persisted document as a handler sees it: its fields and its _id.
Doc(st, t, id) == Spread(st.db[t][id], [_id |-> id])

\* ctx.db.get(id)
DbGet(st, t, id) == IF id \in Ids(st, t) THEN Doc(st, t, id) ELSE Null

\* ctx.db.query(t)[.withIndex(...)].collect() over the ids that match.
DbCollect(st, t, ids) ==
    LET order == Ascending(ids \cap Ids(st, t))
    IN [i \in DOMAIN order |-> Doc(st, t, order[i])]

\* The id ctx.db.insert will assign next in table t.
FreshId(st, t) == st.nextId[t]

\* ctx.db.insert(t, fields): the store afterwards.
DbInsert(st, t, fields) ==
    [db |-> [st.db EXCEPT ![t] = (FreshId(st, t) :> fields) @@ @],
     nextId |-> [st.nextId EXCEPT ![t] = @ + 1]]

\* patch that replaces the document by the updates instead of merging them.
DbPatch_Replace(st, t, id, updates) ==
    [st EXCEPT !.db[t][id] = updates]

\* ctx.db.patch(id, updates) on a persisted document: the store afterwards.
DbPatch(st, t, id, updates) ==
    [st EXCEPT !.db[t][id] = Spread(@, updates)]

\* ctx.db.delete(id) on a persisted document: the store afterwards.
DbDelete(st, t, id) ==
    [st EXCEPT !.db[t] = [i \in (DOMAIN @) \ {id} |-> @[i]]]

RECURSIVE DbDeleteAll(_, _, _)
\* The store after deleting every document of docs from table t.
DbDeleteAll(st, t, docs) ==
    IF docs = <<>> THEN st
    ELSE DbDeleteAll(DbDelete(st, t, Head(docs)._id), t, Tail(docs))

Store == [db |-> db, nextId |-> nextId]

\* No handler is suspended at an await.
AllIdle == \A call \in DOMAIN inflight : inflight[call].op = "idle"

(***************************************************************************)
(* Scopes: which tables a behaviour exercises, and how many ids it may     *)
(* issue in all.  "full": create with any arguments, update and remove;    *)
(* "update": create with any arguments and update; "ids": create with the  *)
(* default arguments and remove; "new": create with the default arguments; *)
(* "off": the table is written only by seedTestData, clearTestData and the *)
(* cascade.  seed: which of the two mutations of seed.ts are called.       *)
(***************************************************************************)
AllOff == [t \in Tables |-> "off"]

ScopeClients ==
    [mode |-> [AllOff EXCEPT !["clients"] = "full"],
     budget |-> BudgetClients, seed |-> {}]

ScopeProjects ==
    [mode |-> [AllOff EXCEPT !["clients"] = "ids", !["projects"] = "full"],
     budget |-> BudgetProjects, seed |-> {}]

ScopeVisits ==
    [mode |-> [AllOff EXCEPT !["clients"] = "new", !["projects"] = "new",
                             !["visits"] = "full"],
     budget |-> BudgetVisits, seed |-> {}]

ScopeOrphanVisits ==
    [mode |-> [AllOff EXCEPT !["clients"] = "new", !["projects"] = "ids",
                             !["visits"] = "new"],
     budget |-> BudgetOrphanVisits, seed |-> {}]

ScopePhotos ==
    [mode |-> [AllOff EXCEPT !["clients"] = "new", !["projects"] = "new",
                             !["visits"] = "new", !["photos"] = "full"],
     budget |-> BudgetPhotos, seed |-> {}]

ScopeCascade ==
    [mode |-> [AllOff EXCEPT !["clients"] = "new", !["projects"] = "new",
                             !["visits"] = "ids", !["photos"] = "ids"],
     budget |-> BudgetCascade, seed |-> {}]

ScopeAssignments ==
    [mode |-> [AllOff EXCEPT !["users"] = "ids", !["clients"] = "new",
                             !["projects"] = "new", !["projectAssignments"] = "full"],
     budget |-> BudgetAssignments, seed |-> {}]

ScopeAssignedProjects ==
    [mode |-> [AllOff EXCEPT !["users"] = "new", !["clients"] = "new",
                             !["projects"] = "ids", !["projectAssignments"] = "full"],
     budget |-> BudgetAssignedProjects, seed |-> {}]

ScopeSeed ==
    [mode |-> [AllOff EXCEPT !["users"] = "new"],
     budget |-> BudgetSeed, seed |-> {"seedTestData", "clearTestData"}]

ScopeSeedAssign ==
    [mode |-> [AllOff EXCEPT !["users"] = "new", !["projectAssignments"] = "ids"],
     budget |-> BudgetSeedAssign, seed |-> {"seedTestData"}]

ScopeSeedTwice ==
    [mode |-> AllOff,
     budget |-> BudgetSeedTwice, seed |-> {"seedTestData"}]

ScopeClear ==
    [mode |-> [AllOff EXCEPT !["clients"] = "new", !["projects"] = "new",
                             !["visits"] = "new", !["photos"] = "new"],
     budget |-> BudgetClear, seed |-> {"clearTestData"}]

\* Scopes with few arguments to draw, to leave room for overlapping calls of
\* assign and of projectAssignments.remove.
ScopeStepsAssign ==
    [mode |-> [AllOff EXCEPT !["users"] = "new", !["clients"] = "new",
                             !["projects"] = "new", !["projectAssignments"] = "update"],
     budget |-> BudgetSteps, seed |-> {}]

ScopeStepsUnassign ==
    [mode |-> [AllOff EXCEPT !["users"] = "new", !["clients"] = "new",
                             !["projects"] = "new", !["projectAssignments"] = "ids"],
     budget |-> BudgetSteps, seed |-> {}]

Scopes == {ScopeClients, ScopeProjects, ScopeVisits, ScopeOrphanVisits, ScopePhotos,
           ScopeCascade, ScopeAssignments, ScopeAssignedProjects, ScopeStepsAssign,
           ScopeStepsUnassign, ScopeSeed, ScopeSeedAssign, ScopeSeedTwice, ScopeClear}

RECURSIVE Sum(_, _)
Sum(f, S) == IF S = {} THEN 0
             ELSE LET x == CHOOSE y \in S : TRUE IN f[x] + Sum(f, S \ {x})

\* The ids issued so far, over all tables.
IssuedTotal == Sum([t \in Tables |-> nextId[t] - 1], Tables)

\* The ids the suspended handlers have still to issue: the insert of an
\* assign that found no row, the inserts seedTestData has not yet made (two
\* of them only if users.first() finds a user).
Pending(f) ==
    IF f.op = "projectAssignments.assign" THEN (IF f.existing = Null THEN 1 ELSE 0)
    ELSE IF f.op = "seed.seedTestData" THEN (IF f.pc < 9 THEN 10 - f.pc ELSE 11 - f.pc)
    ELSE 0

\* A call that starts now may issue k ids: the budget covers them, the ids
\* issued and still to issue, and the calls that started during another.
Room(k) ==
    IssuedTotal + Sum([call \in DOMAIN inflight |-> Pending(inflight[call])],
                      DOMAIN inflight)
      + overlaps + (IF AllIdle THEN 0 ELSE 1) + k <= scope.budget

\* The step is the first of a call: of a handler with one awaited write
\* (call 0), or of the handler that takes frame call.
Starts(call) == call = 0 \/ inflight[call].op = "idle"

\* The step of call counted: a call that starts while another is in flight
\* is an overlap, and the bounds of the behaviour have to leave room for it.
Scheduled(call) ==
    LET overlap == Starts(call) /\ ~AllIdle
    IN /\ overlap => (overlaps < MaxOverlaps /\ Room(0))
       /\ overlaps' = IF overlap THEN overlaps + 1 ELSE overlaps

\* A handler with one awaited write runs and returns c.
Commit(op, args, locals, st, c) ==
    /\ db' = st.db
    /\ nextId' = st.nextId
    /\ last' = [op |-> op, args |-> args, locals |-> locals, ret |-> c]
    /\ Scheduled(0)
    /\ UNCHANGED <<scope, inflight>>

\* A handler throws at its first awaited write: it has written nothing.
Abort(op, args, locals, msg) ==
    /\ last' = [op |-> op, args |-> args, locals |-> locals, ret |-> Threw(msg)]
    /\ Scheduled(0)
    /\ UNCHANGED <<db, nextId, scope, inflight>>

Full(t) == scope.mode[t] = "full"
Updates(t) == scope.mode[t] \in {"update", "full"}
Used(t) == scope.mode[t] # "off"
Removes(t) == scope.mode[t] \in {"ids", "full"}

(***************************************************************************)
(* clients.ts                                                              *)
(***************************************************************************)
ClientNames == {"Acme Construction", "HomeBuilder Inc"}
ClientEmails == {"contact@acme-construction.com", "info@homebuilder.com"}
DefaultClient == [name |-> "Acme Construction", email |-> "contact@acme-construction.com"]

clients_list(st) == DbCollect(st, "clients", Ids(st, "clients"))

clients_get(st, id) == DbGet(st, "clients", id)

clients_create(args) ==
    /\ Used("clients") /\ Room(1)
    /\ Commit("clients.create", args, Empty,
              DbInsert(Store, "clients", Defined(args, {"name", "email"})),
              Returned(FreshId(Store, "clients")))

\* An update handler that replaces the document by the supplied fields.
UpdateHandler_Replace(op, t, args, keys) ==
    LET filteredUpdates == Defined(args, keys)
    IN IF DOMAIN filteredUpdates = {}
       THEN Commit(op, args, Empty, Store, Returned(args.id))
       ELSE IF args.id \in Ids(Store, t)
            THEN Commit(op, args, Empty,
                        [Store EXCEPT !.db[t][args.id] = filteredUpdates],
                        Returned(args.id))
            ELSE Abort(op, args, Empty, "Update on nonexistent document")

\* The shared body of the four update handlers.
UpdateHandler(op, t, args, keys) ==
    LET filteredUpdates == Defined(args, keys)
    IN IF DOMAIN filteredUpdates = {}
       THEN Commit(op, args, Empty, Store, Returned(args.id))
       ELSE IF args.id \in Ids(Store, t)
            THEN Commit(op, args, Empty,
                        DbPatch(Store, t, args.id, filteredUpdates),
                        Returned(args.id))
            ELSE Abort(op, args, Empty, "Update on nonexistent document")

\* A remove handler that checks the id and deletes nothing.
RemoveHandler_NoDelete(op, t, args) ==
    IF args.id \in Ids(Store, t)
    THEN Commit(op, args, Empty, Store, Null)
    ELSE Abort(op, args, Empty, "Delete on nonexistent document")

\* The shared body of the handlers that only delete the document.
RemoveHandler(op, t, args) ==
    IF args.id \in Ids(Store, t)
    THEN Commit(op, args, Empty, DbDelete(Store, t, args.id), Null)
    ELSE Abort(op, args, Empty, "Delete on nonexistent document")

clients_update(args) ==
    /\ Full("clients")
    /\ UpdateHandler("clients.update", "clients", args, {"name", "email"})

\* clients.remove that also deletes the projects of the client.
clients_remove_Cascade(args) ==
    /\ Removes("clients")
    /\ LET projects == DbCollect(Store, "projects",
                         {i \in Ids(Store, "projects") :
                            db["projects"][i].clientId = args.id})
           st == DbDeleteAll(Store, "projects", projects)
       IN IF args.id \in Ids(st, "clients")
          THEN Commit("clients.remove", args, Empty, DbDelete(st, "clients", args.id), Null)
          ELSE Abort("clients.remove", args, Empty, "Delete on nonexistent document")

clients_remove(args) ==
    /\ Removes("clients")
    /\ RemoveHandler("clients.remove", "clients", args)

\* Argument objects: any subset of the optional keys may be present.
Objects(choices) ==
    UNION { {f \in [K -> UNION {choices[k] : k \in K}] : \A k \in K : f[k] \in choices[k]}
            : K \in SUBSET DOMAIN choices }

WithId(t, objs) == {Spread(o, [id |-> i]) : o \in objs, i \in Issued(nextId, t)}

ClientsCreateArgs ==
    IF Full("clients") THEN [name : ClientNames, email : ClientEmails]
    ELSE {DefaultClient}

ClientsUpdateArgs ==
    WithId("clients", Objects([name |-> ClientNames, email |-> ClientEmails]))

ClientsCreate == \E args \in ClientsCreateArgs : clients_create(args)
ClientsUpdate == \E args \in ClientsUpdateArgs : clients_update(args)
ClientsRemove == \E args \in WithId("clients", {Empty}) : clients_remove(args)

(***************************************************************************)
(* projects.ts                                                             *)
(***************************************************************************)
\* projects.list that ignores its clientId argument.
projects_list_Unscoped(st, args) == DbCollect(st, "projects", Ids(st, "projects"))

\* args.clientId is optional: the list is index-scoped only when it is given.
projects_list(st, args) ==
    IF "clientId" \in DOMAIN args
    THEN DbCollect(st, "projects",
                   {i \in Ids(st, "projects") : st.db["projects"][i].clientId = args.clientId})
    ELSE DbCollect(st, "projects", Ids(st, "projects"))

\* listWithClient that drops the projects whose client does not resolve.
projects_listWithClient_DropOrphans(st) ==
    LET projects == DbCollect(st, "projects",
                              {i \in Ids(st, "projects") :
                                 st.db["projects"][i].clientId \in Ids(st, "clients")})
    IN [i \in DOMAIN projects |->
          LET client == DbGet(st, "clients", projects[i].clientId)
          IN Spread(projects[i],
                    [client |-> IF client # Null
                                THEN [name |-> client.name, email |-> client.email]
                                ELSE Null])]

projects_listWithClient(st) ==
    LET projects == DbCollect(st, "projects", Ids(st, "projects"))
    IN [i \in DOMAIN projects |->
          LET client == DbGet(st, "clients", projects[i].clientId)
          IN Spread(projects[i],
                    [client |-> IF client # Null
                                THEN [name |-> client.name, email |-> client.email]
                                ELSE Null])]

projects_get(st, id) == DbGet(st, "projects", id)

projects_create(args) ==
    /\ Used("projects") /\ Room(1)
    /\ Commit("projects.create", args, Empty,
              DbInsert(Store, "projects", Defined(args, {"clientId", "name", "address"})),
              Returned(FreshId(Store, "projects")))

projects_update(args) ==
    /\ Full("projects")
    /\ UpdateHandler("projects.update", "projects", args, {"name", "address"})

projects_remove(args) ==
    /\ Removes("projects")
    /\ RemoveHandler("projects.remove", "projects", args)

ProjectsCreateArgs ==
    IF Full("projects")
    THEN {Spread([clientId |-> c], o) :
            c \in Issued(nextId, "clients"),
            o \in {[name |-> "Downtown Office Renovation",
                    address |-> "123 Main St, San Francisco, CA 94102"],
                   [name |-> "Residential New Build",
                    address |-> "456 Oak Avenue, Palo Alto, CA 94301"]}}
    ELSE [clientId : Issued(nextId, "clients"),
          name : {"Downtown Office Renovation"},
          address : {"123 Main St, San Francisco, CA 94102"}]

ProjectsUpdateArgs ==
    WithId("projects", {Empty,
                        [name |-> "Residential New Build"],
                        [address |-> "456 Oak Avenue, Palo Alto, CA 94301"],
                        [name |-> "Downtown Office Renovation",
                         address |-> "123 Main St, San Francisco, CA 94102"]})

ProjectsCreate == \E args \in ProjectsCreateArgs : projects_create(args)
ProjectsUpdate == \E args \in ProjectsUpdateArgs : projects_update(args)
ProjectsRemove == \E args \in WithId("projects", {Empty}) : projects_remove(args)

(***************************************************************************)
(* photos.ts                                                               *)
(***************************************************************************)
photos_list(st, args) ==
    DbCollect(st, "photos",
              {i \in Ids(st, "photos") : st.db["photos"][i].visitId = args.visitId})

photos_get(st, id) == DbGet(st, "photos", id)

photos_create(args) ==
    /\ Used("photos") /\ Room(1)
    /\ Commit("photos.create", args, Empty,
              DbInsert(Store, "photos",
                       Defined(args, {"visitId", "storageId", "fileUrl", "caption", "category"})),
              Returned(FreshId(Store, "photos")))

photos_update(args) ==
    /\ Full("photos")
    /\ UpdateHandler("photos.update", "photos", args, {"caption", "category"})

photos_remove(args) ==
    /\ Removes("photos")
    /\ RemoveHandler("photos.remove", "photos", args)

\* The required fields of a photo of visit v.
PhotoOf(v) == [visitId |-> v, storageId |-> "kg2storage", fileUrl |-> "https://files/kg2storage"]

PhotosCreateArgs ==
    IF Full("photos")
    THEN {Spread(PhotoOf(v), o) :
            v \in Issued(nextId, "visits"),
            o \in {Empty, [caption |-> "North wall"], [category |-> "plumbing"],
                   [caption |-> "North wall", category |-> "plumbing"]}}
    ELSE {PhotoOf(v) : v \in Issued(nextId, "visits")}

PhotosUpdateArgs ==
    WithId("photos", {Empty, [caption |-> "Panel B"], [category |-> "general"],
                      [caption |-> "Panel B", category |-> "general"]})

PhotosCreate == \E args \in PhotosCreateArgs : photos_create(args)
PhotosUpdate == \E args \in PhotosUpdateArgs : photos_update(args)
PhotosRemove == \E args \in WithId("photos", {Empty}) : photos_remove(args)

(***************************************************************************)
(* visits.ts                                                               *)
(***************************************************************************)
\* visits.list that returns nothing for a project that is not persisted.
visits_list_ParentChecked(st, args) ==
    IF args.projectId \in Ids(st, "projects")
    THEN DbCollect(st, "visits",
                   {i \in Ids(st, "visits") : st.db["visits"][i].projectId = args.projectId})
    ELSE <<>>

visits_list(st, args) ==
    DbCollect(st, "visits",
              {i \in Ids(st, "visits") : st.db["visits"][i].projectId = args.projectId})

RECURSIVE OrderByDate(_, _)
\* The ids in the order of the byDate index: by date, then by creation.
OrderByDate(st, ids) ==
    IF ids = {} THEN <<>>
    ELSE LET m == CHOOSE x \in ids : \A y \in ids :
                    \/ st.db["visits"][x].date < st.db["visits"][y].date
                    \/ st.db["visits"][x].date = st.db["visits"][y].date /\ x <= y
         IN <<m>> \o OrderByDate(st, ids \ {m})

\* .order("desc") of an index scan.
Reverse(s) == [i \in DOMAIN s |-> s[Len(s) + 1 - i]]

visits_listByDate(st, args) ==
    LET order == IF "order" \in DOMAIN args THEN args.order ELSE "desc"
        scan == OrderByDate(st, Ids(st, "visits"))
        asc == [i \in DOMAIN scan |-> Doc(st, "visits", scan[i])]
    IN IF order = "asc" THEN asc ELSE Reverse(asc)

\* visits.get without the early return for a missing visit.
visits_get_NoEarlyReturn(st, id) ==
    LET visit == DbGet(st, "visits", id)
        photos == DbCollect(st, "photos",
                            {i \in Ids(st, "photos") : st.db["photos"][i].visitId = id})
    IN Spread(visit, [photos |-> photos])

\* visits.get that collects the photos table without the byVisitId index.
visits_get_AllPhotos(st, id) ==
    LET visit == DbGet(st, "visits", id)
    IN IF visit = Null THEN Null
       ELSE Spread(visit, [photos |-> DbCollect(st, "photos", Ids(st, "photos"))])

visits_get(st, id) ==
    LET visit == DbGet(st, "visits", id)
    IN IF visit = Null THEN Null
       ELSE LET photos ==
                  DbCollect(st, "photos",
                            {i \in Ids(st, "photos") : st.db["photos"][i].visitId = id})
            IN Spread(visit, [photos |-> photos])

VisitKeys == {"projectId", "date", "notes", "exteriorType", "splatUrl", "videoUrl", "youtube360Url"}

\* visits.create that persists only the required fields.
visits_create_RequiredOnly(args) ==
    /\ Used("visits") /\ Room(1)
    /\ Commit("visits.create", args, Empty,
              DbInsert(Store, "visits", Defined(args, {"projectId", "date", "exteriorType"})),
              Returned(FreshId(Store, "visits")))

\* visits.create that refuses a projectId that resolves to no project.
visits_create_ParentChecked(args) ==
    /\ Used("visits") /\ Room(1)
    /\ IF DbGet(Store, "projects", args.projectId) = Null
       THEN Abort("visits.create", args, Empty, "Project not found")
       ELSE Commit("visits.create", args, Empty,
                   DbInsert(Store, "visits", Defined(args, VisitKeys)),
                   Returned(FreshId(Store, "visits")))

visits_create(args) ==
    /\ Used("visits") /\ Room(1)
    /\ Commit("visits.create", args, Empty,
              DbInsert(Store, "visits", Defined(args, VisitKeys)),
              Returned(FreshId(Store, "visits")))

visits_update(args) ==
    /\ Full("visits")
    /\ UpdateHandler("visits.update", "visits", args, VisitKeys \ {"projectId"})

VisitsCreateArgs ==
    IF Full("visits")
    THEN {Spread([projectId |-> p], o) :
            p \in Issued(nextId, "projects"),
            o \in {[date |-> 1, exteriorType |-> "video", videoUrl |-> "https://example.com/v.mp4"],
                   [date |-> 2, exteriorType |-> "splat", splatUrl |-> "https://lumalabs.ai/s",
                    notes |-> "Framing complete"]}}
    ELSE {[projectId |-> p, date |-> 1, exteriorType |-> "video",
           videoUrl |-> "https://example.com/v.mp4"] : p \in Issued(nextId, "projects")}

VisitsUpdateArgs ==
    WithId("visits", {Empty,
                      [notes |-> "Foundation inspection"],
                      [date |-> 2, exteriorType |-> "splat"],
                      [youtube360Url |-> "https://www.youtube.com/watch?v=1",
                       videoUrl |-> "https://example.com/w.mp4",
                       splatUrl |-> "https://lumalabs.ai/t"]})

VisitsCreate == \E args \in VisitsCreateArgs : visits_create(args)
VisitsUpdate == \E args \in VisitsUpdateArgs : visits_update(args)
(***************************************************************************)
(* users.ts: the users table is written by the identity provider's webhook *)
(* (an upsert and a delete keyed by externalId).                           *)
(***************************************************************************)
\* .unique() over the matching ids: the document, null, or an error.
DbUnique(st, t, ids) ==
    LET found == DbCollect(st, t, ids)
    IN IF Len(found) = 0 THEN Returned(Null)
       ELSE IF Len(found) = 1 THEN Returned(found[1])
       ELSE Threw("unique() query returned more than one result")

\* .first() over the matching ids: the oldest document, or null.
DbFirst(st, t, ids) ==
    LET found == DbCollect(st, t, ids)
    IN IF Len(found) = 0 THEN Null ELSE found[1]

ClientsByEmail(st, email) ==
    {i \in Ids(st, "clients") : st.db["clients"][i].email = email}

\* getByEmail that takes the first match where the code asks for the only one.
clients_getByEmail_First(st, args) ==
    Returned(DbFirst(st, "clients", ClientsByEmail(st, args.email)))

clients_getByEmail(st, args) ==
    DbUnique(st, "clients", ClientsByEmail(st, args.email))

UsersByExternalId(st, externalId) ==
    {i \in Ids(st, "users") : st.db["users"][i].externalId = externalId}

users_upsertFromClerk(args) ==
    /\ Used("users")
    /\ LET user == DbFirst(Store, "users", UsersByExternalId(Store, args.externalId))
           locals == [user |-> user]
       IN IF user = Null
          THEN /\ Room(1)
               /\ Commit("users.upsertFromClerk", args, locals,
                         DbInsert(Store, "users", Defined(args, {"name", "externalId"})), Null)
          ELSE /\ Updates("users") \/ Removes("users")
               /\ Commit("users.upsertFromClerk", args, locals,
                         DbPatch(Store, "users", user._id,
                                 Defined(args, {"name", "externalId"})), Null)

users_deleteFromClerk(args) ==
    /\ Removes("users")
    /\ LET user == DbFirst(Store, "users", UsersByExternalId(Store, args.externalId))
           locals == [user |-> user]
       IN IF user # Null
          THEN Commit("users.deleteFromClerk", args, locals,
                      DbDelete(Store, "users", user._id), Null)
          ELSE Commit("users.deleteFromClerk", args, locals, Store, Null)

ExternalIds == {"user_2a", "user_2b"}

UsersUpsertArgs ==
    [name : {"Ann Operator"},
     externalId : IF Removes("users") THEN ExternalIds ELSE {"user_2a"}]

UsersUpsert == \E args \in UsersUpsertArgs : users_upsertFromClerk(args)
UsersDelete ==
    \E args \in [externalId : ExternalIds] : users_deleteFromClerk(args)

(***************************************************************************)
(* projectAssignments.ts                                                   *)
(***************************************************************************)
Roles == {"operator", "client"}

\* getUserProjects without the final filter of the unresolved projects.
getUserProjects_Unfiltered(st, args) ==
    LET assignments ==
          DbCollect(st, "projectAssignments",
                    {i \in Ids(st, "projectAssignments") :
                       st.db["projectAssignments"][i].userId = args.userId})
    IN [i \in DOMAIN assignments |->
          LET project == DbGet(st, "projects", assignments[i].projectId)
          IN IF project # Null
             THEN Spread(project, [role |-> assignments[i].role])
             ELSE Null]

projectAssignments_getUserProjects(st, args) ==
    LET assignments ==
          DbCollect(st, "projectAssignments",
                    {i \in Ids(st, "projectAssignments") :
                       st.db["projectAssignments"][i].userId = args.userId})
        projects ==
          [i \in DOMAIN assignments |->
             LET project == DbGet(st, "projects", assignments[i].projectId)
             IN IF project # Null
                THEN Spread(project, [role |-> assignments[i].role])
                ELSE Null]
    IN SelectSeq(projects, LAMBDA p : p # Null)

\* getProjectUsers that resolves only the oldest assignment of the project.
getProjectUsers_OldestOnly(st, args) ==
    LET assignments ==
          DbCollect(st, "projectAssignments",
                    {i \in Ids(st, "projectAssignments") :
                       st.db["projectAssignments"][i].projectId = args.projectId})
        users ==
          [i \in DOMAIN assignments \cap {1} |->
             LET user == DbGet(st, "users", assignments[i].userId)
             IN IF user # Null
                THEN Spread(user, [role |-> assignments[i].role])
                ELSE Null]
    IN SelectSeq(users, LAMBDA u : u # Null)

projectAssignments_getProjectUsers(st, args) ==
    LET assignments ==
          DbCollect(st, "projectAssignments",
                    {i \in Ids(st, "projectAssignments") :
                       st.db["projectAssignments"][i].projectId = args.projectId})
        users ==
          [i \in DOMAIN assignments |->
             LET user == DbGet(st, "users", assignments[i].userId)
             IN IF user # Null
                THEN Spread(user, [role |-> assignments[i].role])
                ELSE Null]
    IN SelectSeq(users, LAMBDA u : u # Null)

\* The rows the byUserAndProject index holds for the pair.
ByUserAndProject(st, userId, projectId) ==
    {i \in Ids(st, "projectAssignments") :
       /\ st.db["projectAssignments"][i].userId = userId
       /\ st.db["projectAssignments"][i].projectId = projectId}

(***************************************************************************)
(* seed.ts                                                                 *)
(***************************************************************************)
\* Milliseconds in a day, and the readings of Date.now() a behaviour draws.
DayMs == 24 * 60 * 60 * 1000
Clock == {1000000000}

(***************************************************************************)
(* assign, projectAssignments.remove, visits.remove, seedTestData and      *)
(* clearTestData await more than one ctx.db call: each awaited call is a   *)
(* step, and a write made before a later call throws stays.                *)
(* inflight[call] is the frame of a handler suspended at an await: its     *)
(* position and locals.  Other calls run between its steps.                *)
(***************************************************************************)
Calls == 1 .. MaxOverlaps + 1

Idle == [op |-> "idle"]

\* A new call takes the first free frame.
Free(call) ==
    /\ inflight[call] = Idle
    /\ \A c \in Calls : c < call => inflight[c] # Idle

\* The handler of call performs a ctx.db call and awaits the next one.  The
\* write of the call is in the store from then on (specification, 5: no
\* transaction boundary around the awaited calls).
Suspend(call, frame, st) ==
    /\ db' = st.db
    /\ nextId' = st.nextId
    /\ inflight' = [inflight EXCEPT ![call] = frame]
    /\ Scheduled(call)
    /\ UNCHANGED <<last, scope>>

\* The handler of call performs its last ctx.db call and completes with c.
Finish(call, op, args, locals, st, c) ==
    /\ db' = st.db
    /\ nextId' = st.nextId
    /\ last' = [op |-> op, args |-> args, locals |-> locals, ret |-> c]
    /\ inflight' = [inflight EXCEPT ![call] = Idle]
    /\ Scheduled(call)
    /\ UNCHANGED scope

\* assign without the byUserAndProject pre-check: it goes on to insert.
assign_lookup_NoPreCheck(call, args) ==
    /\ Used("projectAssignments")
    /\ Free(call)
    /\ Suspend(call, [op |-> "projectAssignments.assign", args |-> args,
                      existing |-> Null], Store)

\* assign whose lookup takes the first row of the pair instead of the only one.
assign_lookup_First(call, args) ==
    /\ Used("projectAssignments")
    /\ Free(call)
    /\ Suspend(call, [op |-> "projectAssignments.assign", args |-> args,
                      existing |-> DbFirst(Store, "projectAssignments",
                                      ByUserAndProject(Store, args.userId, args.projectId))],
               Store)

\* assign, first await: the byUserAndProject lookup.
assign_lookup(call, args) ==
    /\ Used("projectAssignments")
    /\ Free(call)
    /\ LET found == DbUnique(Store, "projectAssignments",
                             ByUserAndProject(Store, args.userId, args.projectId))
       IN IF IsError(found)
          THEN Finish(call, "projectAssignments.assign", args, Empty, Store, found)
          ELSE /\ found.value = Null => Room(1)
               /\ Suspend(call, [op |-> "projectAssignments.assign", args |-> args,
                                 existing |-> found.value], Store)

\* assign that replaces an existing row by a new one instead of patching it.
assign_write_FreshRow(call) ==
    /\ inflight[call].op = "projectAssignments.assign"
    /\ LET args == inflight[call].args
           existing == inflight[call].existing
           st == IF existing # Null /\ existing._id \in Ids(Store, "projectAssignments")
                 THEN DbDelete(Store, "projectAssignments", existing._id)
                 ELSE Store
       IN Finish(call, "projectAssignments.assign", args, [existing |-> existing],
                    DbInsert(st, "projectAssignments",
                             Defined(args, {"projectId", "userId", "role"})),
                    Returned(FreshId(st, "projectAssignments")))

\* assign that returns the existing row's id without patching its role.
assign_write_KeepRole(call) ==
    /\ inflight[call].op = "projectAssignments.assign"
    /\ LET args == inflight[call].args
           existing == inflight[call].existing
           locals == [existing |-> existing]
       IN IF existing # Null
          THEN Finish(call, "projectAssignments.assign", args, locals, Store,
                      Returned(existing._id))
          ELSE Finish(call, "projectAssignments.assign", args, locals,
                      DbInsert(Store, "projectAssignments",
                               Defined(args, {"projectId", "userId", "role"})),
                      Returned(FreshId(Store, "projectAssignments")))

\* assign whose write looks the pair up again before it inserts.
assign_write_Recheck(call) ==
    /\ inflight[call].op = "projectAssignments.assign"
    /\ LET args == inflight[call].args
           existing == inflight[call].existing
           locals == [existing |-> existing]
           now == ByUserAndProject(Store, args.userId, args.projectId)
       IN IF now # {}
          THEN LET id == CHOOSE i \in now : TRUE
               IN Finish(call, "projectAssignments.assign", args, locals,
                         DbPatch(Store, "projectAssignments", id, [role |-> args.role]),
                         Returned(id))
          ELSE Finish(call, "projectAssignments.assign", args, locals,
                      DbInsert(Store, "projectAssignments",
                               Defined(args, {"projectId", "userId", "role"})),
                      Returned(FreshId(Store, "projectAssignments")))

\* assign, second await: patch the row found by the lookup, or insert.
assign_write(call) ==
    /\ inflight[call].op = "projectAssignments.assign"
    /\ LET args == inflight[call].args
           existing == inflight[call].existing
           locals == [existing |-> existing]
       IN IF existing # Null
          THEN IF existing._id \in Ids(Store, "projectAssignments")
               THEN Finish(call, "projectAssignments.assign", args, locals,
                           DbPatch(Store, "projectAssignments", existing._id,
                                   [role |-> args.role]),
                           Returned(existing._id))
               ELSE Finish(call, "projectAssignments.assign", args, locals, Store,
                           Threw("Update on nonexistent document"))
          ELSE Finish(call, "projectAssignments.assign", args, locals,
                      DbInsert(Store, "projectAssignments",
                               Defined(args, {"projectId", "userId", "role"})),
                      Returned(FreshId(Store, "projectAssignments")))

\* visits.remove without the cascade: it enumerates no photo.
remove_collect_NoCascade(call, args) ==
    /\ Removes("visits")
    /\ Free(call)
    /\ Suspend(call, [op |-> "visits.remove", args |-> args,
                      photos |-> <<>>, rest |-> <<>>], Store)

\* visits.remove that collects the photos table without the byVisitId index.
remove_collect_Unindexed(call, args) ==
    /\ Removes("visits")
    /\ Free(call)
    /\ LET photos == DbCollect(Store, "photos", Ids(Store, "photos"))
       IN Suspend(call, [op |-> "visits.remove", args |-> args,
                         photos |-> photos, rest |-> photos], Store)

\* visits.remove, first await: collect the photos of the visit.
remove_collect(call, args) ==
    /\ Removes("visits")
    /\ Free(call)
    /\ LET photos == DbCollect(Store, "photos",
                       {i \in Ids(Store, "photos") : db["photos"][i].visitId = args.id})
       IN Suspend(call, [op |-> "visits.remove", args |-> args,
                         photos |-> photos, rest |-> photos], Store)

RemoveLocals(call) ==
    [photos |-> inflight[call].photos, rest |-> inflight[call].rest]

\* visits.remove whose loop passes over the collected photos without
\* deleting them.
remove_deletePhoto_Skip(call) ==
    /\ inflight[call].op = "visits.remove"
    /\ inflight[call].rest # <<>>
    /\ Suspend(call, [inflight[call] EXCEPT !.rest = Tail(@)], Store)

\* visits.remove, one turn of the loop: delete the next collected photo.
remove_deletePhoto(call) ==
    /\ inflight[call].op = "visits.remove"
    /\ inflight[call].rest # <<>>
    /\ LET photo == Head(inflight[call].rest)
       IN IF photo._id \in Ids(Store, "photos")
          THEN Suspend(call, [inflight[call] EXCEPT !.rest = Tail(@)],
                       DbDelete(Store, "photos", photo._id))
          ELSE Finish(call, "visits.remove", inflight[call].args, RemoveLocals(call),
                      Store, Threw("Delete on nonexistent document"))

\* visits.remove that deletes the visit before its loop has finished.
remove_deleteVisit_Early(call) ==
    /\ inflight[call].op = "visits.remove"
    /\ LET args == inflight[call].args
       IN IF args.id \in Ids(Store, "visits")
          THEN Finish(call, "visits.remove", args, RemoveLocals(call),
                      DbDelete(Store, "visits", args.id), Null)
          ELSE Finish(call, "visits.remove", args, RemoveLocals(call), Store,
                      Threw("Delete on nonexistent document"))

\* visits.remove, last await: delete the visit.
remove_deleteVisit(call) ==
    /\ inflight[call].op = "visits.remove"
    /\ inflight[call].rest = <<>>
    /\ LET args == inflight[call].args
       IN IF args.id \in Ids(Store, "visits")
          THEN Finish(call, "visits.remove", args, RemoveLocals(call),
                      DbDelete(Store, "visits", args.id), Null)
          ELSE Finish(call, "visits.remove", args, RemoveLocals(call), Store,
                      Threw("Delete on nonexistent document"))

\* remove that raises an error when the pair has no row.
projectAssignments_remove_lookup_Strict(call, args) ==
    /\ Removes("projectAssignments")
    /\ Free(call)
    /\ LET found == DbUnique(Store, "projectAssignments",
                             ByUserAndProject(Store, args.userId, args.projectId))
       IN IF IsError(found)
          THEN Finish(call, "projectAssignments.remove", args, Empty, Store, found)
          ELSE IF found.value = Null
          THEN Finish(call, "projectAssignments.remove", args, [assignment |-> Null],
                      Store, Threw("Assignment not found"))
          ELSE Suspend(call, [op |-> "projectAssignments.remove", args |-> args,
                              assignment |-> found.value], Store)

\* projectAssignments.remove, first await: the byUserAndProject lookup.  With
\* no row found the handler has nothing more to await.
projectAssignments_remove_lookup(call, args) ==
    /\ Removes("projectAssignments")
    /\ Free(call)
    /\ LET found == DbUnique(Store, "projectAssignments",
                             ByUserAndProject(Store, args.userId, args.projectId))
       IN IF IsError(found)
          THEN Finish(call, "projectAssignments.remove", args, Empty, Store, found)
          ELSE IF found.value = Null
          THEN Finish(call, "projectAssignments.remove", args, [assignment |-> Null],
                      Store, Null)
          ELSE Suspend(call, [op |-> "projectAssignments.remove", args |-> args,
                              assignment |-> found.value], Store)

\* projectAssignments.remove, second await: delete the row found.
projectAssignments_remove_delete(call) ==
    /\ inflight[call].op = "projectAssignments.remove"
    /\ LET args == inflight[call].args
           assignment == inflight[call].assignment
           locals == [assignment |-> assignment]
       IN IF assignment._id \in Ids(Store, "projectAssignments")
          THEN Finish(call, "projectAssignments.remove", args, locals,
                      DbDelete(Store, "projectAssignments", assignment._id), Null)
          ELSE Finish(call, "projectAssignments.remove", args, locals, Store,
                      Threw("Delete on nonexistent document"))

\* The k-th ctx.db.insert of seedTestData: its table and its document.  ids
\* are the ids the earlier inserts returned.
SeedInsert(k, ids, now, existingUser) ==
    CASE k = 1 -> [t |-> "clients",
                   row |-> [name |-> "Acme Construction",
                            email |-> "contact@acme-construction.com"]]
      [] k = 2 -> [t |-> "clients",
                   row |-> [name |-> "HomeBuilder Inc", email |-> "info@homebuilder.com"]]
      [] k = 3 -> [t |-> "projects",
                   row |-> [clientId |-> ids[1], name |-> "Downtown Office Renovation",
                            address |-> "123 Main St, San Francisco, CA 94102"]]
      [] k = 4 -> [t |-> "projects",
                   row |-> [clientId |-> ids[1], name |-> "Residential New Build",
                            address |-> "456 Oak Avenue, Palo Alto, CA 94301"]]
      [] k = 5 -> [t |-> "projects",
                   row |-> [clientId |-> ids[2], name |-> "Kitchen Remodel",
                            address |-> "789 Pine Lane, San Jose, CA 95101"]]
      [] k = 6 -> [t |-> "visits",
                   row |-> [projectId |-> ids[3], date |-> now - 7 * DayMs,
                            exteriorType |-> "video",
                            youtube360Url |-> "https://www.youtube.com/watch?v=dQw4w9WgXcQ",
                            notes |-> "Initial site survey - captured full exterior"]]
      [] k = 7 -> [t |-> "visits",
                   row |-> [projectId |-> ids[3], date |-> now - 3 * DayMs,
                            exteriorType |-> "splat",
                            splatUrl |-> "https://lumalabs.ai/embed/example-splat-id",
                            notes |-> "Framing complete - 3D gaussian splat capture"]]
      [] k = 8 -> [t |-> "visits",
                   row |-> [projectId |-> ids[4], date |-> now,
                            exteriorType |-> "video",
                            videoUrl |-> "https://example.com/videos/site-walkthrough.mp4",
                            notes |-> "Foundation inspection"]]
      [] k = 10 -> [t |-> "projectAssignments",
                    row |-> [projectId |-> ids[3], userId |-> existingUser._id,
                             role |-> "operator"]]
      [] k = 11 -> [t |-> "projectAssignments",
                    row |-> [projectId |-> ids[4], userId |-> existingUser._id,
                             role |-> "operator"]]

\* What seedTestData returns.
SeedResult(ids, existingUser) ==
    [created |-> [clients |-> 2, projects |-> 3, visits |-> 3,
                  projectAssignments |-> IF existingUser # Null THEN 2 ELSE 0],
     ids |-> [clients |-> <<ids[1], ids[2]>>,
              projects |-> <<ids[3], ids[4], ids[5]>>,
              visits |-> <<ids[6], ids[7], ids[8]>>]]

\* seedTestData, its next await from frame f, which has made f.pc awaited
\* calls: the eight inserts, users.first(), the two assignment inserts.
seed_await(call, f, now) ==
    LET k == f.pc + 1
    IN IF k = 9
       THEN LET existingUser == DbFirst(Store, "users", Ids(Store, "users"))
            IN IF existingUser = Null
               THEN Finish(call, "seed.seedTestData", Empty,
                           [existingUser |-> existingUser], Store,
                           Returned(SeedResult(f.ids, existingUser)))
               ELSE Suspend(call, [f EXCEPT !.pc = k, !.existingUser = existingUser],
                            Store)
       ELSE LET ins == SeedInsert(k, f.ids, now, f.existingUser)
                st == DbInsert(Store, ins.t, ins.row)
                g == [f EXCEPT !.pc = k,
                               !.ids = IF k <= 8 THEN Append(@, FreshId(Store, ins.t))
                                       ELSE @]
            IN IF k = 11
               THEN Finish(call, "seed.seedTestData", Empty,
                           [existingUser |-> f.existingUser], st,
                           Returned(SeedResult(f.ids, f.existingUser)))
               ELSE Suspend(call, g, st)

\* seedTestData, first await: the first client insert.
seed_seedTestData(call, now) ==
    /\ "seedTestData" \in scope.seed
    /\ Free(call)
    /\ Room(10)
    /\ seed_await(call, [op |-> "seed.seedTestData", args |-> Empty, pc |-> 0,
                         ids |-> <<>>, existingUser |-> Null], now)

\* seedTestData, a later await.
seed_seedTestData_next(call, now) ==
    /\ inflight[call].op = "seed.seedTestData"
    /\ seed_await(call, inflight[call], now)

\* clearTestData that deletes the parents before their children.
ClearOrder_ParentsFirst == <<"clients", "projects", "projectAssignments", "visits", "photos">>

\* clearTestData that goes on to delete the users as well.
ClearOrder_WithUsers ==
    <<"photos", "visits", "projectAssignments", "projects", "clients", "users">>

\* The tables in the order clearTestData empties them.
ClearOrder == <<"photos", "visits", "projectAssignments", "projects", "clients">>

\* The length of the array clearTestData collected from table t.
Collected(collected, t) ==
    Len(collected[CHOOSE i \in DOMAIN ClearOrder : ClearOrder[i] = t])

\* clearTestData, its next await from frame f: the delete of the next
\* document of the array it is looping over or, with that loop at its end,
\* the collect of the next table.  After the last of them it returns.
clear_await(call, f) ==
    IF f.rest # <<>> /\ Head(f.rest)._id \notin Ids(Store, ClearOrder[Len(f.collected)])
    THEN Finish(call, "seed.clearTestData", Empty, Empty, Store,
                Threw("Delete on nonexistent document"))
    ELSE LET st == IF f.rest # <<>>
                   THEN DbDelete(Store, ClearOrder[Len(f.collected)], Head(f.rest)._id)
                   ELSE Store
             t == ClearOrder[Len(f.collected) + 1]
             docs == DbCollect(Store, t, Ids(Store, t))
             g == IF f.rest # <<>>
                  THEN [f EXCEPT !.rest = Tail(@)]
                  ELSE [f EXCEPT !.collected = Append(@, docs), !.rest = docs]
         IN IF g.rest = <<>> /\ Len(g.collected) = Len(ClearOrder)
            THEN Finish(call, "seed.clearTestData", Empty, Empty, st,
                        Returned([deleted |->
                           [photos |-> Collected(g.collected, "photos"),
                            visits |-> Collected(g.collected, "visits"),
                            projectAssignments |-> Collected(g.collected, "projectAssignments"),
                            projects |-> Collected(g.collected, "projects"),
                            clients |-> Collected(g.collected, "clients")]]))
            ELSE Suspend(call, g, st)

\* clearTestData, first await: collect the photos.
seed_clearTestData(call) ==
    /\ "clearTestData" \in scope.seed
    /\ Free(call)
    /\ clear_await(call, [op |-> "seed.clearTestData", args |-> Empty,
                          collected |-> <<>>, rest |-> <<>>])

\* clearTestData, a later await.
seed_clearTestData_next(call) ==
    /\ inflight[call].op = "seed.clearTestData"
    /\ clear_await(call, inflight[call])

\* A cut-off handler whose deletes are undone: the photos a visits.remove
\* had deleted are persisted again.
interrupt_Rollback(call) ==
    /\ inflight[call] # Idle
    /\ LET f == inflight[call]
           undone == IF f.op = "visits.remove"
                     THEN {n \in DOMAIN f.photos : f.photos[n]._id \notin DOMAIN db["photos"]}
                     ELSE {}
           ids == DOMAIN db["photos"] \cup {f.photos[n]._id : n \in undone}
           restored ==
             [i \in ids |->
                IF i \in DOMAIN db["photos"] THEN db["photos"][i]
                ELSE LET d == f.photos[CHOOSE n \in undone : f.photos[n]._id = i]
                     IN [k \in DOMAIN d \ {"_id"} |-> d[k]]]
       IN Finish(call, f.op, f.args,
                 [k \in DOMAIN f \ {"op", "args"} |-> f[k]],
                 [db |-> [db EXCEPT !["photos"] = restored], nextId |-> nextId],
                 Threw("interrupted"))

\* A suspended handler is cut off: its remaining calls never run.
interrupt(call) ==
    /\ inflight[call] # Idle
    /\ Finish(call, inflight[call].op, inflight[call].args,
              [k \in DOMAIN inflight[call] \ {"op", "args"} |-> inflight[call][k]],
              Store, Threw("interrupted"))

AssignLookup ==
    \E call \in Calls :
      \E args \in [projectId : Issued(nextId, "projects"),
                   userId : Issued(nextId, "users"),
                   role : IF Updates("projectAssignments") THEN Roles ELSE {"operator"}] :
          assign_lookup(call, args)
AssignWrite == \E call \in Calls : assign_write(call)
AssignmentRemoveLookup ==
    \E call \in Calls :
      \E args \in [projectId : Issued(nextId, "projects"),
                   userId : Issued(nextId, "users")] :
          projectAssignments_remove_lookup(call, args)
AssignmentRemoveDelete == \E call \in Calls : projectAssignments_remove_delete(call)
RemoveCollect ==
    \E call \in Calls : \E args \in [id : Issued(nextId, "visits")] :
        remove_collect(call, args)
RemoveDeletePhoto == \E call \in Calls : remove_deletePhoto(call)
RemoveDeleteVisit == \E call \in Calls : remove_deleteVisit(call)
Interrupt == \E call \in Calls : interrupt(call)
SeedTestData == \E call \in Calls : \E now \in Clock : seed_seedTestData(call, now)
SeedNext == \E call \in Calls : \E now \in Clock : seed_seedTestData_next(call, now)
ClearTestData == \E call \in Calls : seed_clearTestData(call)
ClearNext == \E call \in Calls : seed_clearTestData_next(call)

(***************************************************************************)
(* The detail pages.  useQuery gives undefined until the query has         *)
(* resolved, then the query's value; a page is a function of the results   *)
(* of its queries.                                                         *)
(***************************************************************************)
Undefined == [undefined |-> TRUE]

\* The results a subscription to a query of value v can show: undefined,
\* then the value (held in a record, as a mutation's return is).
UseQuery(v) == {Undefined, Returned(v)}

\* The project cards of the client page, the visit cards of the project page.
ProjectCards(projects) ==
    [i \in DOMAIN projects |->
        [key |-> projects[i]._id, name |-> projects[i].name, address |-> projects[i].address]]

\* The runtimes a page is rendered in: the default locale, and the offset of
\* the default time zone from UTC, in minutes, at the instant shown.
Runtimes == {[locale |-> "en-US", offset |-> 0], [locale |-> "de-DE", offset |-> -300]}

\* The calendar date of the day that is `days` days after 1970-01-01.
CivilFromDays(days) ==
    LET z == days + 719468
        era == z \div 146097
        doe == z - era * 146097
        yoe == (doe - doe \div 1460 + doe \div 36524 - doe \div 146096) \div 365
        doy == doe - (365 * yoe + yoe \div 4 - yoe \div 100)
        mp == (5 * doy + 2) \div 153
        month == IF mp < 10 THEN mp + 3 ELSE mp - 9
    IN [year |-> yoe + era * 400 + (IF month <= 2 THEN 1 ELSE 0),
        month |-> month,
        day |-> doy - (153 * mp + 2) \div 5 + 1]

\* new Date(date).toLocaleDateString(): the local calendar day of the
\* instant, written as the locale writes a date.
ToLocaleDateString(date, runtime) ==
    LET local == CivilFromDays((date + runtime.offset * 60000) \div DayMs)
    IN IF runtime.locale = "de-DE"
       THEN ToString(local.day) \o "." \o ToString(local.month) \o "." \o ToString(local.year)
       ELSE ToString(local.month) \o "/" \o ToString(local.day) \o "/" \o ToString(local.year)

VisitCards(visits, runtime) ==
    [i \in DOMAIN visits |->
        [key |-> visits[i]._id, date |-> ToLocaleDateString(visits[i].date, runtime),
         exteriorType |-> visits[i].exteriorType,
         notes |-> IF "notes" \in DOMAIN visits[i] /\ visits[i].notes # ""
                   THEN visits[i].notes ELSE "No notes"]]

\* The client page with a falsy test in place of the test for undefined.
ClientDetailPage_Falsy(client, projects) ==
    IF client = Undefined \/ client = Returned(Null) THEN [screen |-> "Loading..."]
    ELSE [screen |-> "details", name |-> client.value.name, email |-> client.value.email,
          projects |-> IF projects = Undefined THEN [section |-> "Loading projects..."]
                       ELSE IF Len(projects.value) = 0 THEN [section |-> "No projects yet"]
                       ELSE [section |-> "cards", cards |-> ProjectCards(projects.value)]]

ClientDetailPage(client, projects) ==
    IF client = Undefined THEN [screen |-> "Loading..."]
    ELSE IF client = Returned(Null) THEN [screen |-> "Client not found"]
    ELSE [screen |-> "details", name |-> client.value.name, email |-> client.value.email,
          projects |-> IF projects = Undefined THEN [section |-> "Loading projects..."]
                       ELSE IF Len(projects.value) = 0 THEN [section |-> "No projects yet"]
                       ELSE [section |-> "cards", cards |-> ProjectCards(projects.value)]]

\* client is the result of clients.get(project.clientId), skipped (and so
\* undefined) while project is not a record.
ProjectDetailPage(project, visits, client, runtime) ==
    IF project = Undefined THEN [screen |-> "Loading..."]
    ELSE IF project = Returned(Null) THEN [screen |-> "Project not found"]
    ELSE [screen |-> "details", name |-> project.value.name, address |-> project.value.address,
          client |-> IF client # Undefined /\ client # Returned(Null)
                     THEN [link |-> client.value._id, name |-> client.value.name] ELSE Null,
          visits |-> IF visits = Undefined THEN [section |-> "Loading visits..."]
                     ELSE IF Len(visits.value) = 0 THEN [section |-> "No visits yet"]
                     ELSE [section |-> "cards", cards |-> VisitCards(visits.value, runtime)]]

Init ==
    /\ db = [t \in Tables |-> Empty]
    /\ nextId = [t \in Tables |-> 1]
    /\ last = [op |-> "init", args |-> Empty, locals |-> Empty, ret |-> Null]
    /\ scope \in Scopes
    /\ inflight = [call \in Calls |-> Idle]
    /\ overlaps = 0

Next ==
    \/ ClientsCreate
    \/ ClientsUpdate
    \/ ClientsRemove
    \/ ProjectsCreate
    \/ ProjectsUpdate
    \/ ProjectsRemove
    \/ VisitsCreate
    \/ VisitsUpdate
    \/ RemoveCollect
    \/ RemoveDeletePhoto
    \/ RemoveDeleteVisit
    \/ PhotosCreate
    \/ PhotosUpdate
    \/ PhotosRemove
    \/ UsersUpsert
    \/ UsersDelete
    \/ AssignLookup
    \/ AssignWrite
    \/ AssignmentRemoveLookup
    \/ AssignmentRemoveDelete
    \/ SeedTestData
    \/ SeedNext
    \/ ClearTestData
    \/ ClearNext

Spec == Init /\ [][Next]_vars

\* The behaviours of the visit cascade (the calls of ScopeCascade) in which a
\* suspended handler may also be cut off.
InitSteps ==
    /\ db = [t \in Tables |-> Empty]
    /\ nextId = [t \in Tables |-> 1]
    /\ last = [op |-> "init", args |-> Empty, locals |-> Empty, ret |-> Null]
    /\ scope = ScopeCascade
    /\ inflight = [call \in Calls |-> Idle]
    /\ overlaps = 0

NextSteps ==
    \/ ClientsCreate
    \/ ProjectsCreate
    \/ VisitsCreate
    \/ PhotosCreate
    \/ PhotosRemove
    \/ RemoveCollect
    \/ RemoveDeletePhoto
    \/ RemoveDeleteVisit
    \/ Interrupt

SpecSteps == InitSteps /\ [][NextSteps]_vars

(***************************************************************************)
(* Properties.                                                             *)
(***************************************************************************)
\* The call that has just returned is op, and it raised no error.
Completed(op) == last.op = op /\ ~IsError(last.ret) /\ AllIdle

\* The step is one in which a call of op returns or throws: last is written
\* and no handler is left suspended by the step.
Ends(op) ==
    /\ last'.op = op
    /\ \A call \in Calls : inflight'[call] # inflight[call] => inflight'[call] = Idle

\* The calls so far have run one after another: none has started while
\* another was in flight.
Serial == overlaps = 0

PhotoIdsOf(v) == {i \in DOMAIN db["photos"] : db["photos"][i].visitId = v}

\* C1: once visits.remove(v) has run to completion on an existing visit v,
\* the calls having run one after another, no photo with visitId = v is
\* persisted, photos.list(v) is empty and visits.get(v) is null.
C1_CascadeRemovesPhotos ==
    (Serial /\ Completed("visits.remove")) =>
        /\ PhotoIdsOf(last.args.id) = {}
        /\ Len(photos_list(Store, [visitId |-> last.args.id])) = 0
        /\ visits_get(Store, last.args.id) = Null

\* A visits.remove that deleted two photos of its visit has completed.
C1_Witness ==
    /\ Serial
    /\ Completed("visits.remove")
    /\ Len(last.locals.photos) >= 2

PairRows(u, p) == ByUserAndProject(Store, u, p)

\* C2: in every state reachable by calls that do not overlap there is at
\* most one projectAssignments row for each (userId, projectId) pair.
C2_OneRowPerPair ==
    Serial =>
    \A i, j \in DOMAIN db["projectAssignments"] :
        (/\ db["projectAssignments"][i].userId = db["projectAssignments"][j].userId
         /\ db["projectAssignments"][i].projectId = db["projectAssignments"][j].projectId)
        => i = j

\* assign has inserted a row next to the two rows that seedTestData inserted
\* without the pre-check.
C2_Witness ==
    /\ Serial
    /\ Completed("projectAssignments.assign")
    /\ last.locals.existing = Null
    /\ nextId["visits"] > 1
    /\ Cardinality(DOMAIN db["projectAssignments"]) >= 3

\* C3: the calls running one after another, an assign call that directly
\* follows a completed assign call with the same arguments returns the same
\* id and leaves the store as the first call left it, with exactly one row
\* for the pair.
C3_AssignIdempotent ==
    [][ (/\ Serial'
         /\ last.op = "projectAssignments.assign" /\ ~IsError(last.ret)
         /\ Ends("projectAssignments.assign")
         /\ last'.args = last.args)
        => /\ last'.ret = last.ret
           /\ db' = db
           /\ nextId' = nextId
           /\ Cardinality(PairRows(last.args.userId, last.args.projectId)) = 1 ]_vars

\* An assign has completed on a pair whose row already carried the role.
C3_Witness ==
    /\ Serial
    /\ Completed("projectAssignments.assign")
    /\ last.locals.existing # Null
    /\ last.locals.existing.role = last.args.role

\* C4: the calls running one after another, assign on a pair that has a row,
\* with a role other than the row's, sets that row's role, returns that
\* row's id, inserts nothing and changes no other field and no other row.
C4_AssignPatchesRole ==
    [][ \A r \in DOMAIN db["projectAssignments"] :
          LET row == db["projectAssignments"][r]
          IN (/\ Serial'
              /\ Ends("projectAssignments.assign")
              /\ last'.args.userId = row.userId
              /\ last'.args.projectId = row.projectId
              /\ last'.args.role # row.role)
             => /\ last'.ret = Returned(r)
                /\ db' = [db EXCEPT !["projectAssignments"][r].role = last'.args.role]
                /\ nextId' = nextId ]_vars

\* An assign has changed the role of an existing row while another row exists.
C4_Witness ==
    /\ Serial
    /\ Completed("projectAssignments.assign")
    /\ last.locals.existing # Null
    /\ last.locals.existing.role # last.args.role
    /\ Cardinality(DOMAIN db["projectAssignments"]) >= 2

\* The entity fields of a document: all but the system and joined fields.
Fields(doc) == Defined(doc, DOMAIN doc \ {"_id", "photos"})

ResultIds(res) == {res[i]._id : i \in DOMAIN res}

\* res lists exactly the persisted rows ids of table t, each once and whole.
ListsExactly(res, t, ids) ==
    /\ ResultIds(res) = ids
    /\ Len(res) = Cardinality(ids)
    /\ \A i \in DOMAIN res : Fields(res[i]) = db[t][res[i]._id]

\* C5: projects.list(clientId = X) returns exactly the persisted projects
\* whose clientId is X, projects.list() returns every persisted project, and
\* visits.list(projectId) and photos.list(visitId) return exactly the
\* persisted rows whose foreign key equals the argument.
C5_IndexScopedLists ==
    /\ \A X \in 1 .. nextId["clients"] :
          ListsExactly(projects_list(Store, [clientId |-> X]), "projects",
                       {p \in DOMAIN db["projects"] : db["projects"][p].clientId = X})
    /\ ListsExactly(projects_list(Store, Empty), "projects", DOMAIN db["projects"])
    /\ \A P \in 1 .. nextId["projects"] :
          ListsExactly(visits_list(Store, [projectId |-> P]), "visits",
                       {v \in DOMAIN db["visits"] : db["visits"][v].projectId = P})
    /\ \A V \in 1 .. nextId["visits"] :
          ListsExactly(photos_list(Store, [visitId |-> V]), "photos", PhotoIdsOf(V))

\* Projects of two different clients are persisted.
C5_Witness ==
    \E p, q \in DOMAIN db["projects"] :
        db["projects"][p].clientId # db["projects"][q].clientId

\* C6: right after create(fields) returns an id, get(id) returns a record
\* whose entity fields are exactly the fields passed (omitted optional
\* fields absent); for a visit it also carries an empty photos list.
C6_GetAfterCreate ==
    /\ Completed("clients.create") =>
          /\ Fields(clients_get(Store, last.ret.value)) = last.args
          /\ clients_get(Store, last.ret.value)._id = last.ret.value
    /\ Completed("projects.create") =>
          /\ Fields(projects_get(Store, last.ret.value)) = last.args
          /\ projects_get(Store, last.ret.value)._id = last.ret.value
    /\ Completed("photos.create") =>
          /\ Fields(photos_get(Store, last.ret.value)) = last.args
          /\ photos_get(Store, last.ret.value)._id = last.ret.value
    /\ Completed("visits.create") =>
          LET got == visits_get(Store, last.ret.value)
          IN /\ Fields(got) = last.args
             /\ got._id = last.ret.value
             /\ "photos" \in DOMAIN got
             /\ Len(got.photos) = 0

\* A visit was created with some optional fields given and others omitted,
\* while photos of another visit are persisted.
C6_Witness ==
    /\ Completed("visits.create")
    /\ "videoUrl" \in DOMAIN last.args
    /\ "notes" \notin DOMAIN last.args
    /\ DOMAIN db["photos"] # {}

UpdateTable ==
    [op \in {"clients.update", "projects.update", "visits.update", "photos.update"} |->
        CASE op = "clients.update" -> "clients"
          [] op = "projects.update" -> "projects"
          [] op = "visits.update" -> "visits"
          [] op = "photos.update" -> "photos"]

\* C7: update(id, fields) on an existing record sets exactly the supplied
\* fields, leaves its other fields and every other record unchanged and
\* returns id; with no field supplied the store is unchanged.
C7_UpdatePatchesSupplied ==
    [][ \A op \in DOMAIN UpdateTable :
          (Ends(op) /\ last'.args.id \in DOMAIN db[UpdateTable[op]])
          => LET t == UpdateTable[op]
                 id == last'.args.id
                 supplied == Defined(last'.args, DOMAIN last'.args \ {"id"})
             IN /\ last'.ret = Returned(id)
                /\ nextId' = nextId
                /\ db' = [db EXCEPT ![t][id] =
                             [k \in DOMAIN @ \cup DOMAIN supplied |->
                                IF k \in DOMAIN supplied THEN supplied[k] ELSE @[k]]]
                /\ DOMAIN supplied = {} => db' = db ]_vars

\* A visit was updated in one field while it keeps another, next to a second
\* visit.
C7_Witness ==
    /\ Completed("visits.update")
    /\ "notes" \in DOMAIN last.args
    /\ Cardinality(DOMAIN db["visits"]) >= 2
    /\ last.args.id \in DOMAIN db["visits"]
    /\ "videoUrl" \in DOMAIN db["visits"][last.args.id]

Entities == {"clients", "projects", "visits", "photos"}

\* get of the entity's module.
Get(t, st, id) ==
    CASE t = "clients" -> clients_get(st, id)
      [] t = "projects" -> projects_get(st, id)
      [] t = "visits" -> visits_get(st, id)
      [] t = "photos" -> photos_get(st, id)

RemoveTable ==
    [op \in {"clients.remove", "projects.remove", "visits.remove", "photos.remove"} |->
        CASE op = "clients.remove" -> "clients"
          [] op = "projects.remove" -> "projects"
          [] op = "visits.remove" -> "visits"
          [] op = "photos.remove" -> "photos"]

StoreNext == [db |-> db', nextId |-> nextId']

\* C8: after remove(id) has completed get(id) returns null, and an issued id
\* whose get returns null keeps returning null after every later step.
C8_RemovedStaysAbsent ==
    [][ /\ \A op \in DOMAIN RemoveTable :
             (Ends(op) /\ ~IsError(last'.ret))
             => Get(RemoveTable[op], StoreNext, last'.args.id) = Null
        /\ \A t \in Entities : \A id \in Issued(nextId, t) :
             Get(t, Store, id) = Null => Get(t, StoreNext, id) = Null ]_vars

\* A client was created after an older client had been removed.
C8_Witness ==
    /\ Completed("clients.create")
    /\ \E id \in Issued(nextId, "clients") :
          id < last.ret.value /\ clients_get(Store, id) = Null

\* C9: get of an id that resolves to no persisted record returns null, for
\* clients, projects, photos and visits; visits.get returns plain null also
\* when photos carrying that visitId are persisted.
C9_GetMissingIsNull ==
    \A t \in Entities : \A id \in 1 .. nextId[t] :
        id \notin DOMAIN db[t] => Get(t, Store, id) = Null

\* A removed visit has an orphaned photo.
C9_Witness ==
    \E v \in Issued(nextId, "visits") :
        v \notin DOMAIN db["visits"] /\ PhotoIdsOf(v) # {}

\* C10: for an existing visit v, visits.get(v) is v's own fields merged with
\* a photos list holding exactly the persisted photos with visitId = v, the
\* list photos.list(v) returns.
C10_VisitWithPhotos ==
    \A v \in DOMAIN db["visits"] :
        LET got == visits_get(Store, v)
        IN /\ Fields(got) = db["visits"][v]
           /\ got._id = v
           /\ got.photos = photos_list(Store, [visitId |-> v])
           /\ ListsExactly(got.photos, "photos", PhotoIdsOf(v))

\* A visit has a photo while another visit's photo is persisted too.
C10_Witness ==
    \E v \in DOMAIN db["visits"] :
        PhotoIdsOf(v) # {} /\ PhotoIdsOf(v) # DOMAIN db["photos"]

\* The table f without the rows S.
Without(f, S) == [i \in DOMAIN f \ S |-> f[i]]

\* C11: visits.remove(v), the calls running one after another, deletes
\* exactly visit v and the photos with visitId = v: it enumerates exactly
\* those photos and writes nothing while it does, each turn of its loop
\* deletes one of them and nothing else, and its last step deletes visit v
\* and nothing else, no photo of v being left; visits.list of v's project is
\* then the earlier list without v.
C11_RemoveVisitFrame ==
    [][ Serial' =>
        (/\ \A call \in Calls :
              /\ (inflight[call] = Idle /\ inflight'[call].op = "visits.remove")
                 => /\ db' = db /\ nextId' = nextId
                    /\ {inflight'[call].photos[i]._id : i \in DOMAIN inflight'[call].photos}
                         = PhotoIdsOf(inflight'[call].args.id)
              /\ (inflight[call].op = "visits.remove" /\ inflight'[call].op = "visits.remove"
                  /\ inflight'[call] # inflight[call])
                 => /\ nextId' = nextId
                    /\ \E i \in PhotoIdsOf(inflight[call].args.id) :
                          db' = [db EXCEPT !["photos"] = Without(@, {i})]
         /\ (Ends("visits.remove") /\ ~IsError(last'.ret))
            => LET v == last'.args.id
                   project == [projectId |-> db["visits"][v].projectId]
               IN /\ v \in DOMAIN db["visits"]
                  /\ PhotoIdsOf(v) = {}
                  /\ db' = [db EXCEPT !["visits"] = Without(@, {v})]
                  /\ nextId' = nextId
                  /\ visits_list(StoreNext, project)
                       = SelectSeq(visits_list(Store, project), LAMBDA d : d._id # v)) ]_vars

\* A visit with a photo was removed while another visit and a photo of that
\* other visit stay persisted.
C11_Witness ==
    /\ Serial
    /\ Completed("visits.remove")
    /\ Len(last.locals.photos) >= 1
    /\ \E w \in DOMAIN db["visits"] : PhotoIdsOf(w) # {}

\* C12: projects.listWithClient returns one row per persisted project, the
\* ids projects.list() returns; each row is the project with client set to
\* the {name, email} of the client its clientId resolves to, or to null when
\* that client is not persisted.
C12_ListWithClient ==
    LET res == projects_listWithClient(Store)
        all == projects_list(Store, Empty)
    IN /\ Len(res) = Len(all)
       /\ ResultIds(res) = DOMAIN db["projects"]
       /\ \A i \in DOMAIN res :
             LET c == res[i].clientId
             IN /\ res[i]._id = all[i]._id
                /\ Defined(res[i], DOMAIN res[i] \ {"_id", "client"})
                     = db["projects"][res[i]._id]
                /\ res[i].client =
                     IF c \in DOMAIN db["clients"]
                     THEN [name |-> db["clients"][c].name, email |-> db["clients"][c].email]
                     ELSE Null

\* A project whose client was removed is persisted next to a project whose
\* client exists.
C12_Witness ==
    \E p, q \in DOMAIN db["projects"] :
        /\ db["projects"][p].clientId \notin DOMAIN db["clients"]
        /\ db["projects"][q].clientId \in DOMAIN db["clients"]

\* res has one entry per assignment row of rows whose parent (the row's
\* field fk, a document of table t) is persisted, in row order, each the
\* parent's fields and id with the row's role.
ResolvesRows(res, rows, fk, t) ==
    LET kept == Ascending({r \in rows : db["projectAssignments"][r][fk] \in DOMAIN db[t]})
    IN /\ Len(res) = Len(kept)
       /\ \A i \in DOMAIN res :
             LET row == db["projectAssignments"][kept[i]]
             IN /\ res[i]._id = row[fk]
                /\ res[i].role = row.role
                /\ Defined(res[i], DOMAIN res[i] \ {"_id", "role"}) = db[t][row[fk]]

\* C13: getUserProjects(u) has one entry per assignment row of u whose
\* project is persisted, with the project's fields and the row's role, and
\* omits rows whose project is gone; getProjectUsers(p) does the same over
\* the rows of p and their users.
C13_AssignmentResolvers ==
    /\ \A u \in 1 .. nextId["users"] :
          ResolvesRows(projectAssignments_getUserProjects(Store, [userId |-> u]),
                       {r \in DOMAIN db["projectAssignments"] :
                          db["projectAssignments"][r].userId = u},
                       "projectId", "projects")
    /\ \A p \in 1 .. nextId["projects"] :
          ResolvesRows(projectAssignments_getProjectUsers(Store, [projectId |-> p]),
                       {r \in DOMAIN db["projectAssignments"] :
                          db["projectAssignments"][r].projectId = p},
                       "userId", "users")

\* A user holds an assignment to a removed project and one to a persisted
\* project.
C13_Witness ==
    \E r, s \in DOMAIN db["projectAssignments"] :
        /\ db["projectAssignments"][r].userId = db["projectAssignments"][s].userId
        /\ db["projectAssignments"][r].projectId \notin DOMAIN db["projects"]
        /\ db["projectAssignments"][s].projectId \in DOMAIN db["projects"]
        /\ db["projectAssignments"][s].userId \in DOMAIN db["users"]

\* C14: removing a client, a project or an assignment cascades to nothing:
\* clients.remove(c) and projects.remove(p) delete that one row and leave
\* every other table as it was, and projectAssignments.remove deletes at most
\* one row, a row of its pair, and nothing else.
C14_NoCascade ==
    [][ /\ (Ends("clients.remove") /\ ~IsError(last'.ret))
           => /\ last'.args.id \in DOMAIN db["clients"]
              /\ db' = [db EXCEPT !["clients"] = Without(@, {last'.args.id})]
              /\ nextId' = nextId
        /\ (Ends("projects.remove") /\ ~IsError(last'.ret))
           => /\ last'.args.id \in DOMAIN db["projects"]
              /\ db' = [db EXCEPT !["projects"] = Without(@, {last'.args.id})]
              /\ nextId' = nextId
        /\ (Ends("projectAssignments.remove") /\ ~IsError(last'.ret))
           => \E rows \in SUBSET PairRows(last'.args.userId, last'.args.projectId) :
                 /\ Cardinality(rows) <= 1
                 /\ db' = [db EXCEPT !["projectAssignments"] = Without(@, rows)]
                 /\ nextId' = nextId ]_vars

\* A client was removed while a project of that client stays persisted.
C14_Witness ==
    /\ Completed("clients.remove")
    /\ \E p \in DOMAIN db["projects"] : db["projects"][p].clientId = last.args.id

\* The children whose parent is not persisted.
OrphanProjects ==
    {p \in DOMAIN db["projects"] : db["projects"][p].clientId \notin DOMAIN db["clients"]}
OrphanVisits ==
    {v \in DOMAIN db["visits"] : db["visits"][v].projectId \notin DOMAIN db["projects"]}
OrphanAssignments ==
    {r \in DOMAIN db["projectAssignments"] :
       db["projectAssignments"][r].projectId \notin DOMAIN db["projects"]}

ListByDateArgs == {Empty, [order |-> "asc"], [order |-> "desc"]}

\* C15 as claimed: no list or resolver operation returns an orphaned child.
C15_OrphansHidden ==
    /\ \A p \in OrphanProjects :
          /\ p \notin ResultIds(projects_list(Store, Empty))
          /\ p \notin ResultIds(projects_list(Store, [clientId |-> db["projects"][p].clientId]))
          /\ p \notin ResultIds(projects_listWithClient(Store))
    /\ \A v \in OrphanVisits :
          /\ v \notin ResultIds(visits_list(Store, [projectId |-> db["visits"][v].projectId]))
          /\ \A a \in ListByDateArgs : v \notin ResultIds(visits_listByDate(Store, a))
    /\ \A r \in OrphanAssignments :
          db["projectAssignments"][r].userId
             \notin ResultIds(projectAssignments_getProjectUsers(
                                Store, [projectId |-> db["projectAssignments"][r].projectId]))

\* C15: an orphaned child stays persisted and is returned by get and by the
\* list and resolver operations as well: projects.list with and without the
\* removed clientId, listWithClient (with client null), visits.list of the
\* removed project, visits.listByDate, and getProjectUsers of the removed
\* project for every row whose user is persisted.
C15_OrphansListed ==
    /\ \A p \in OrphanProjects :
          /\ projects_get(Store, p) # Null
          /\ p \in ResultIds(projects_list(Store, Empty))
          /\ p \in ResultIds(projects_list(Store, [clientId |-> db["projects"][p].clientId]))
          /\ \E i \in DOMAIN projects_listWithClient(Store) :
                /\ projects_listWithClient(Store)[i]._id = p
                /\ projects_listWithClient(Store)[i].client = Null
    /\ \A v \in OrphanVisits :
          /\ visits_get(Store, v) # Null
          /\ v \in ResultIds(visits_list(Store, [projectId |-> db["visits"][v].projectId]))
          /\ \A a \in ListByDateArgs : v \in ResultIds(visits_listByDate(Store, a))
    /\ \A r \in OrphanAssignments :
          LET row == db["projectAssignments"][r]
              res == projectAssignments_getProjectUsers(Store, [projectId |-> row.projectId])
          IN row.userId \in DOMAIN db["users"]
             => \E i \in DOMAIN res : res[i]._id = row.userId /\ res[i].role = row.role

\* A project was removed while a visit of that project stays persisted.
C15_Witness ==
    /\ Completed("projects.remove")
    /\ \E v \in OrphanVisits : db["visits"][v].projectId = last.args.id

CreateTable ==
    [op \in {"projects.create", "visits.create", "photos.create"} |->
        CASE op = "projects.create" -> "projects"
          [] op = "visits.create" -> "visits"
          [] op = "photos.create" -> "photos"]

\* C16: projects.create, visits.create and photos.create make no existence
\* check on the parent id: every call completes and persists the record
\* under a new id, also when the parent is not persisted.
C16_CreateWithoutParent ==
    [][ \A op \in DOMAIN CreateTable :
          Ends(op)
          => LET t == CreateTable[op]
             IN /\ ~IsError(last'.ret)
                /\ last'.ret.value \notin DOMAIN db[t]
                /\ db' = [db EXCEPT ![t] = (last'.ret.value :> last'.args) @@ @] ]_vars

\* A visit was created under a project that had been removed.
C16_Witness ==
    /\ Completed("visits.create")
    /\ last.args.projectId \notin DOMAIN db["projects"]
    /\ last.ret.value \in DOMAIN db["visits"]

\* C17 as claimed: every project row, at the step that persists it, has a
\* clientId that references a client persisted at that moment.
C17_ClientExistsAtWrite ==
    [][ \A p \in DOMAIN db'["projects"] \ DOMAIN db["projects"] :
          db'["projects"][p].clientId \in DOMAIN db'["clients"] ]_vars

MutationTable ==
    [op \in DOMAIN UpdateTable \cup DOMAIN RemoveTable |->
        IF op \in DOMAIN UpdateTable THEN UpdateTable[op] ELSE RemoveTable[op]]

\* C18 as claimed: update and remove with an id that resolves to no persisted
\* record raise an error and leave the store unchanged, for update whatever
\* optional fields are supplied, none included.
C18_MissingIdRaises ==
    [][ \A op \in DOMAIN MutationTable :
          (Ends(op) /\ last'.args.id \notin DOMAIN db[MutationTable[op]])
          => /\ IsError(last'.ret)
             /\ db' = db
             /\ nextId' = nextId ]_vars

\* C19: calls of assign for one pair overlapping, a call whose lookup found
\* no row inserts a new row at its write whatever the other has done since:
\* when it writes while the other call is suspended after a lookup that
\* found no row either, the other call stays so and a row of the pair is
\* persisted, and when it writes after the other call has inserted, the
\* pair has two rows.
C19_RaceInsertsTwice ==
    [][ \A call \in Calls :
          (/\ inflight[call].op = "projectAssignments.assign"
           /\ inflight[call].existing = Null
           /\ inflight'[call] = Idle)
          => LET args == inflight[call].args
                 pair(f) == /\ f.op = "projectAssignments.assign"
                            /\ f.args.userId = args.userId
                            /\ f.args.projectId = args.projectId
             IN /\ ~IsError(last'.ret)
                /\ last'.ret.value \notin DOMAIN db["projectAssignments"]
                /\ db' = [db EXCEPT !["projectAssignments"] = (last'.ret.value :> args) @@ @]
                /\ \A other \in Calls \ {call} :
                      (pair(inflight[other]) /\ inflight[other].existing = Null)
                      => /\ inflight'[other] = inflight[other]
                         /\ ByUserAndProject(StoreNext, args.userId, args.projectId) # {}
                /\ PairRows(args.userId, args.projectId) # {}
                   => Cardinality(ByUserAndProject(StoreNext, args.userId, args.projectId)) >= 2
      ]_vars

\* Two calls of assign for one pair have both found no row and both
\* inserted: the pair has two rows.
C19_Witness ==
    /\ ~Serial
    /\ Completed("projectAssignments.assign")
    /\ last.locals.existing = Null
    /\ Cardinality(PairRows(last.args.userId, last.args.projectId)) >= 2

\* C20: visits.remove writes nothing when it collects the photos and each
\* turn of its loop deletes one collected photo and leaves the visit; after
\* a call has been cut off in between, no other call having run meanwhile,
\* the photos it had deleted are not persisted, the photos it had still to
\* delete are persisted with their visitId, and the visits table is as the
\* call found it.
C20_PartialCascadeStays ==
    [][ \A call \in Calls :
          /\ (inflight[call] = Idle /\ inflight'[call].op = "visits.remove")
             => db' = db /\ nextId' = nextId
          /\ (inflight[call].op = "visits.remove" /\ inflight'[call].op = "visits.remove"
              /\ inflight'[call] # inflight[call])
             => /\ db' = [db EXCEPT !["photos"] =
                              Without(@, {Head(inflight[call].rest)._id})]
                /\ inflight'[call].rest = Tail(inflight[call].rest)
          /\ (Serial' /\ inflight[call].op = "visits.remove" /\ inflight'[call] = Idle
              /\ last'.ret = Threw("interrupted"))
             => LET f == inflight[call]
                    enumerated == {f.photos[n]._id : n \in DOMAIN f.photos}
                    remaining == {f.rest[n]._id : n \in DOMAIN f.rest}
                IN /\ \A i \in enumerated \ remaining : i \notin DOMAIN db'["photos"]
                   /\ \A i \in remaining :
                         /\ i \in DOMAIN db'["photos"]
                         /\ db'["photos"][i].visitId = f.args.id
                   /\ db'["visits"] = db["visits"]
                   /\ nextId' = nextId ]_vars

\* A visits.remove was cut off after it had deleted one of the photos it
\* collected: the visit and another of its photos are persisted.
C20_Witness ==
    /\ Serial
    /\ last.op = "visits.remove"
    /\ last.ret = Threw("interrupted")
    /\ last.args.id \in DOMAIN db["visits"]
    /\ \E i \in DOMAIN last.locals.photos :
          last.locals.photos[i]._id \notin DOMAIN db["photos"]
    /\ \E i \in DOMAIN last.locals.rest :
          /\ last.locals.rest[i]._id \in DOMAIN db["photos"]
          /\ db["photos"][last.locals.rest[i]._id].visitId = last.args.id

\* C21: within visits.remove the visit row is deleted last: a call still in
\* its loop leaves the visits table alone, and at the step where a call
\* deletes the visit every photo that call enumerated is absent.
C21_VisitDeletedLast ==
    [][ \A call \in Calls :
          (inflight[call].op = "visits.remove" /\ inflight'[call] # inflight[call])
          => /\ inflight'[call].op = "visits.remove" => db'["visits"] = db["visits"]
             /\ db'["visits"] # db["visits"]
                => /\ DOMAIN db'["visits"] = DOMAIN db["visits"] \ {inflight[call].args.id}
                   /\ \A i \in DOMAIN inflight[call].photos :
                         inflight[call].photos[i]._id \notin DOMAIN db'["photos"] ]_vars

\* A visits.remove that enumerated two photos has run to its end, the visit
\* deleted after both photos.
C21_Witness ==
    /\ Completed("visits.remove")
    /\ Len(last.locals.photos) >= 2
    /\ last.locals.rest = <<>>
    /\ last.args.id \notin DOMAIN db["visits"]

\* The ids of the rows of table t that the clearTestData of frame f has
\* deleted so far.
Cleared(f, t) ==
    UNION {{f.collected[i][n]._id : n \in DOMAIN f.collected[i]}
             \ (IF i = Len(f.collected)
                THEN {f.rest[n]._id : n \in DOMAIN f.rest} ELSE {}) :
           i \in {i \in DOMAIN f.collected : ClearOrder[i] = t}}

\* No persisted row references a parent row that is in Cleared.
NoChildOfCleared(f) ==
    /\ \A i \in DOMAIN db["photos"] :
          db["photos"][i].visitId \notin Cleared(f, "visits")
    /\ \A i \in DOMAIN db["visits"] :
          db["visits"][i].projectId \notin Cleared(f, "projects")
    /\ \A i \in DOMAIN db["projectAssignments"] :
          db["projectAssignments"][i].projectId \notin Cleared(f, "projects")
    /\ \A i \in DOMAIN db["projects"] :
          db["projects"][i].clientId \notin Cleared(f, "clients")

\* C22: the calls running one after another, while clearTestData is between
\* two of its awaits, the tables it has collected are photos, visits,
\* projectAssignments, projects, clients in that order, every table collected
\* before the current one is empty, and no persisted photo, visit,
\* assignment or project references a row this call has deleted.
C22_ClearInDependencyOrder ==
    Serial =>
    \A call \in Calls :
        inflight[call].op = "seed.clearTestData"
        => LET f == inflight[call]
           IN /\ Len(f.collected) \in 1 .. 5
              /\ \A i \in 1 .. Len(f.collected) - 1 :
                    db[<<"photos", "visits", "projectAssignments", "projects",
                         "clients">>[i]] = Empty
              /\ \A i \in 1 .. Len(f.collected) : \A n \in DOMAIN f.collected[i] :
                    f.collected[i][n]._id \in
                        Issued(nextId, <<"photos", "visits", "projectAssignments",
                                         "projects", "clients">>[i])
              /\ NoChildOfCleared(f)

\* A clearTestData is between two awaits with a visit and its photo deleted
\* while the visit's project and the project's client are still persisted.
C22_Witness ==
    \E call \in Calls :
        /\ Serial
        /\ inflight[call].op = "seed.clearTestData"
        /\ Len(inflight[call].collected) = 3
        /\ Cleared(inflight[call], "photos") # {}
        /\ \E n \in DOMAIN inflight[call].collected[2] :
              LET visit == inflight[call].collected[2][n]
              IN /\ visit._id \in Cleared(inflight[call], "visits")
                 /\ visit.projectId \in DOMAIN db["projects"]
                 /\ db["projects"][visit.projectId].clientId \in DOMAIN db["clients"]

\* The three branches of a detail page on its primary query result.
Branches(page, result, notFound) ==
    /\ page.screen = "Loading..." <=> result = Undefined
    /\ page.screen = notFound <=> result = Returned(Null)
    /\ page.screen = "details" <=> (result # Undefined /\ result # Returned(Null))
    /\ page.screen \in {"Loading...", notFound, "details"}

\* C23: ClientDetailPage and ProjectDetailPage show the loading state
\* exactly while the primary query result is undefined, the not-found state
\* exactly when it is null, and the record's details exactly when it is a
\* record, whatever the other queries of the page have returned.
C23_DetailPageBranches ==
    /\ \A id \in 1 .. nextId["clients"] :
         \A client \in UseQuery(clients_get(Store, id)) :
           \A projects \in UseQuery(projects_list(Store, [clientId |-> id])) :
              LET page == ClientDetailPage(client, projects)
              IN /\ Branches(page, client, "Client not found")
                 /\ page.screen = "details"
                    => page.name = db["clients"][id].name /\ page.email = db["clients"][id].email
    /\ \A id \in 1 .. nextId["projects"] :
         \A project \in UseQuery(projects_get(Store, id)) :
           \A visits \in UseQuery(visits_list(Store, [projectId |-> id])) :
             \A client \in IF project # Undefined /\ project # Returned(Null)
                           THEN UseQuery(clients_get(Store, project.value.clientId))
                           ELSE {Undefined} :
               \A runtime \in Runtimes :
                LET page == ProjectDetailPage(project, visits, client, runtime)
                IN /\ Branches(page, project, "Project not found")
                   /\ page.screen = "details"
                      => page.name = db["projects"][id].name
                         /\ page.address = db["projects"][id].address

\* The page of a removed client shows not found while the page of a
\* persisted client with a project shows its details.
C23_Witness ==
    \E a, b \in Issued(nextId, "clients") :
        /\ ClientDetailPage(Returned(clients_get(Store, a)), Undefined).screen = "Client not found"
        /\ LET page == ClientDetailPage(Returned(clients_get(Store, b)),
                                        Returned(projects_list(Store, [clientId |-> b])))
           IN page.screen = "details" /\ page.projects.section = "cards"

\* The emails to look up: those persisted, those the operations use, and one
\* that no client has.
LookupEmails ==
    {db["clients"][i].email : i \in DOMAIN db["clients"]} \cup ClientEmails
        \cup {"nobody@example.com"}

\* C24: clients.getByEmail(e) returns null when no client has email e,
\* returns that client when exactly one does, and raises an error when two
\* or more clients share e.
C24_GetByEmail ==
    \A e \in LookupEmails :
        LET ids == {i \in DOMAIN db["clients"] : db["clients"][i].email = e}
            got == clients_getByEmail(Store, [email |-> e])
        IN /\ ids = {} => got = Returned(Null)
           /\ Cardinality(ids) = 1
              => \E i \in ids : got = Returned(clients_get(Store, i))
           /\ Cardinality(ids) >= 2 => "error" \in DOMAIN got

\* clients.create has just persisted a second client with an email another
\* client already has, and getByEmail of that email raises.
C24_Witness ==
    /\ Completed("clients.create")
    /\ Cardinality({i \in DOMAIN db["clients"] : db["clients"][i].email = last.args.email}) >= 2
    /\ "error" \in DOMAIN clients_getByEmail(Store, [email |-> last.args.email])

\* Two or more projectAssignments rows of d are for the pair (u, p).
Duplicated(d, u, p) ==
    Cardinality({i \in DOMAIN d["projectAssignments"] :
                   /\ d["projectAssignments"][i].userId = u
                   /\ d["projectAssignments"][i].projectId = p}) >= 2

PairOps == {"projectAssignments.assign", "projectAssignments.remove"}

ForPair(args, u, p) == args.userId = u /\ args.projectId = p

\* C25: while two projectAssignments rows exist for a pair, no assign or
\* projectAssignments.remove called for that pair gets past its lookup: the
\* call raises an error and leaves the store as it is; and unless a call for
\* the pair that did its lookup before the duplicate existed is still in
\* flight, the pair has two or more rows after every step.
C25_DuplicateStays ==
    [][ \A u \in Issued(nextId, "users") : \A p \in Issued(nextId, "projects") :
          Duplicated(db, u, p)
          => /\ \A call \in Calls :
                  (/\ inflight[call] = Idle
                   /\ inflight'[call] # Idle
                   /\ inflight'[call].op \in PairOps)
                  => ~ForPair(inflight'[call].args, u, p)
             /\ (/\ inflight' = inflight
                 /\ last' # last
                 /\ last'.op \in PairOps
                 /\ ForPair(last'.args, u, p))
                => /\ IsError(last'.ret)
                   /\ db' = db
             /\ (\A call \in Calls :
                   inflight[call].op \in PairOps => ~ForPair(inflight[call].args, u, p))
                => Duplicated(db', u, p) ]_vars

\* projectAssignments.remove has been called for a pair that has two rows:
\* it raised the error of the unique lookup and both rows are persisted.
C25_Witness ==
    /\ last.op = "projectAssignments.remove"
    /\ last.ret = Threw("unique() query returned more than one result")
    /\ Duplicated(db, last.args.userId, last.args.projectId)

\* The foreign-key fields of each table.
ForeignKeys ==
    [t \in Tables |->
        CASE t = "projects" -> {"clientId"}
          [] t = "visits" -> {"projectId"}
          [] t = "photos" -> {"visitId", "storageId"}
          [] t = "projectAssignments" -> {"projectId", "userId"}
          [] OTHER -> {}]

\* C26: in every step, every record that is persisted before and after the
\* step has all its foreign-key fields, with the values it had before the
\* step: Project.clientId, Visit.projectId, Photo.visitId and storageId,
\* ProjectAssignment.projectId and userId.
C26_ForeignKeysFixed ==
    [][ \A t \in Tables : \A id \in DOMAIN db[t] \cap DOMAIN db'[t] :
          /\ ForeignKeys[t] \subseteq DOMAIN db'[t][id]
          /\ \A k \in ForeignKeys[t] : db'[t][id][k] = db[t][id][k] ]_vars

\* assign has patched the role of an existing row, whose pair is the one it
\* was looked up by.
C26_Witness ==
    /\ Completed("projectAssignments.assign")
    /\ last.locals.existing # Null
    /\ last.locals.existing.role # last.args.role
    /\ last.ret.value \in DOMAIN db["projectAssignments"]
    /\ db["projectAssignments"][last.ret.value].role = last.args.role
    /\ db["projectAssignments"][last.ret.value].userId = last.locals.existing.userId
    /\ db["projectAssignments"][last.ret.value].projectId = last.locals.existing.projectId

\* The resolver's result has an entry for the record id with role r.
Contains(result, id, r) ==
    \E i \in DOMAIN result : result[i]._id = id /\ result[i].role = r

\* C27: for every persisted user u, persisted project p and role r,
\* getUserProjects(u) contains p with role r if and only if
\* getProjectUsers(p) contains u with role r.
C27_ResolversSymmetric ==
    \A u \in DOMAIN db["users"] : \A p \in DOMAIN db["projects"] : \A r \in Roles :
        Contains(projectAssignments_getUserProjects(Store, [userId |-> u]), p, r)
        <=> Contains(projectAssignments_getProjectUsers(Store, [projectId |-> p]), u, r)

\* A user has two projects with different roles, and each project's users
\* contain the user with that project's role.
C27_Witness ==
    \E u \in DOMAIN db["users"] : \E p, q \in DOMAIN db["projects"] :
        /\ p # q
        /\ Contains(projectAssignments_getUserProjects(Store, [userId |-> u]), p, "operator")
        /\ Contains(projectAssignments_getUserProjects(Store, [userId |-> u]), q, "client")
        /\ Contains(projectAssignments_getProjectUsers(Store, [projectId |-> p]), u, "operator")
        /\ Contains(projectAssignments_getProjectUsers(Store, [projectId |-> q]), u, "client")

ClearedTables == {"photos", "visits", "projectAssignments", "projects", "clients"}
ClearedTablesInOrder == <<"photos", "visits", "projectAssignments", "projects", "clients">>

\* The frame the step of call starts from, and whether the step is one of
\* clearTestData.
ClearFrame(call) ==
    IF inflight[call] = Idle
    THEN [op |-> "seed.clearTestData", args |-> Empty, collected |-> <<>>, rest |-> <<>>]
    ELSE inflight[call]
ClearStep(call) ==
    /\ inflight'[call] # inflight[call]
    /\ \/ inflight[call].op = "seed.clearTestData"
       \/ inflight'[call].op = "seed.clearTestData"
       \/ inflight[call] = Idle /\ Ends("seed.clearTestData")

\* The rows clearTestData has counted for its i-th table after the step.
CountedAfter(call, i) ==
    IF inflight'[call] = Idle
    THEN last'.ret.value.deleted[<<"photos", "visits", "projectAssignments",
                                   "projects", "clients">>[i]]
    ELSE Len(inflight'[call].collected[i])

\* C28: the calls running one after another, every step of clearTestData
\* leaves users and the id counters as they were; a collect step changes no
\* table and counts every row its table holds; a delete step removes one row
\* of the table being cleared and changes no other table, so the tables not
\* yet collected are as they were when the call began; and the call ends
\* without an error, the five tables empty, its deleted counts those counted.
C28_ClearEmptiesFive ==
    [][ \A call \in Calls :
          (Serial' /\ ClearStep(call))
          => LET f == ClearFrame(call)
                 i == Len(f.collected)
             IN /\ i + (IF f.rest = <<>> THEN 1 ELSE 0) \in 1 .. 5
                /\ db'["users"] = db["users"]
                /\ nextId' = nextId
                /\ IF f.rest = <<>>
                   THEN /\ db' = db
                        /\ CountedAfter(call, i + 1)
                             = Cardinality(DOMAIN db[ClearedTablesInOrder[i + 1]])
                   ELSE /\ DOMAIN db'[ClearedTablesInOrder[i]]
                             = DOMAIN db[ClearedTablesInOrder[i]] \ {Head(f.rest)._id}
                        /\ Head(f.rest)._id \in DOMAIN db[ClearedTablesInOrder[i]]
                        /\ \A t \in Tables \ {ClearedTablesInOrder[i]} : db'[t] = db[t]
                /\ \A n \in 1 .. i : CountedAfter(call, n) = Len(f.collected[n])
                /\ inflight'[call] = Idle
                   => /\ Ends("seed.clearTestData")
                      /\ ~IsError(last'.ret)
                      /\ \A t \in ClearedTables : db'[t] = Empty
                      /\ DOMAIN last'.ret.value = {"deleted"}
                      /\ DOMAIN last'.ret.value.deleted = ClearedTables
       ]_vars

\* clearTestData has deleted the clients, projects, visits and assignments
\* of the seed, and a user is still persisted.
C28_Witness ==
    /\ Serial
    /\ Completed("seed.clearTestData")
    /\ \A t \in ClearedTables \ {"photos"} : last.ret.value.deleted[t] >= 1
    /\ \A t \in ClearedTables : db[t] = Empty
    /\ db["users"] # Empty

\* C29: the calls running one after another,
\* projectAssignments.remove(projectId, userId) on a pair with one row
\* deletes that row and nothing else, after which getUserProjects(userId)
\* has no entry for the project; on a pair with no row it changes nothing
\* and raises no error; either way the pair has no row afterwards, so a
\* second call right after is a call on a pair with no row.
C29_RemoveAssignment ==
    [][ (Serial' /\ Ends("projectAssignments.remove"))
        => LET u == last'.args.userId
               p == last'.args.projectId
               rows == PairRows(u, p)
           IN /\ Cardinality(rows) = 1
                 => /\ ~IsError(last'.ret)
                    /\ db' = [db EXCEPT !["projectAssignments"] =
                                 [i \in DOMAIN @ \ rows |-> @[i]]]
                    /\ \A i \in DOMAIN projectAssignments_getUserProjects(
                                          StoreNext, [userId |-> u]) :
                          projectAssignments_getUserProjects(
                              StoreNext, [userId |-> u])[i]._id # p
              /\ rows = {}
                 => /\ ~IsError(last'.ret)
                    /\ db' = db
              /\ Cardinality(rows) <= 1
                 => ByUserAndProject(StoreNext, u, p) = {} ]_vars

\* remove has deleted the row of a persisted user and a persisted project,
\* and the user keeps another row.
C29_Witness ==
    /\ Serial
    /\ Completed("projectAssignments.remove")
    /\ last.locals.assignment # Null
    /\ last.args.userId \in DOMAIN db["users"]
    /\ last.args.projectId \in DOMAIN db["projects"]
    /\ last.locals.assignment._id \notin DOMAIN db["projectAssignments"]
    /\ \E r \in DOMAIN db["projectAssignments"] :
          db["projectAssignments"][r].userId = last.args.userId

\* C30 as claimed: at the step where a visits.remove(v) completes, no photo
\* with visitId = v is persisted, whatever photos.create calls for v ran
\* between its steps.
C30_NoOrphanPhotoAfterRemove ==
    [][ (Ends("visits.remove") /\ ~IsError(last'.ret))
        => \A i \in DOMAIN db'["photos"] : db'["photos"][i].visitId # last'.args.id ]_vars

\* C30 as amended: visits.remove(v) enumerates at its first await exactly the
\* photos with visitId = v persisted then, and once it has completed none
\* of the photos it enumerated is persisted: a photo with visitId = v that
\* is persisted then was created after the enumeration, by a call that ran
\* between the steps of the removal.
C30_EnumeratedPhotosRemoved ==
    [][ /\ \A call \in Calls :
             (inflight[call] = Idle /\ inflight'[call].op = "visits.remove")
             => {inflight'[call].photos[n]._id : n \in DOMAIN inflight'[call].photos}
                  = PhotoIdsOf(inflight'[call].args.id)
        /\ (Ends("visits.remove") /\ ~IsError(last'.ret))
           => LET enumerated == {last'.locals.photos[n]._id : n \in DOMAIN last'.locals.photos}
              IN /\ enumerated \cap DOMAIN db'["photos"] = {}
                 /\ (\E i \in DOMAIN db'["photos"] :
                        db'["photos"][i].visitId = last'.args.id) => ~Serial' ]_vars

\* A visits.remove(v) that enumerated and deleted a photo has completed, and
\* a photo with visitId = v created between its steps is persisted.
C30_Witness ==
    /\ Completed("visits.remove")
    /\ Len(last.locals.photos) >= 1
    /\ last.args.id \notin DOMAIN db["visits"]
    /\ \E i \in DOMAIN db["photos"] : db["photos"][i].visitId = last.args.id

====
